---- MODULE Spec2Model ----
(***************************************************************************)
(* Model of netbox_cisco_support: the Cisco Support API client             *)
(* (cisco_client.py: token exchange, authenticated GET with one retry on   *)
(* 401, response cache) and the device lookup view (views.py: gate,        *)
(* identity resolution, the fixed sequence of dependent client calls).     *)
(*                                                                         *)
(* Text is modelled two ways.  Fields the code takes apart character by    *)
(* character (serial field, manufacturer name, platform name, custom field *)
(* values, client id) are sequences of one-character strings.  Values the  *)
(* code only passes around (model, product ids, messages) are strings.     *)
(***************************************************************************)
EXTENDS Integers, Sequences, FiniteSets, TLC

----------------------------------------------------------------------------
(* Python values *)

\* Python's None for string-valued names.
None == "None"

\* None for dict-valued names (a response, a data container).
NoneRec == [none |-> TRUE]

\* bool(x) for a str-or-None value.
Truthy(x) == x # None /\ x # ""

\* bool(x) for a character sequence or a list.
TruthySeq(s) == Len(s) > 0

\* x or y, for str-or-None values.
OrElse(x, y) == IF Truthy(x) THEN x ELSE y

\* list[:n]
Take(s, n) == SubSeq(s, 1, IF Len(s) < n THEN Len(s) ELSE n)

\* list[1:]
Rest(s) == SubSeq(s, 2, Len(s))

\* d.get(k, default) for a dict modelled as a record or function.
Get(d, k, default) == IF k \in DOMAIN d THEN d[k] ELSE default

\* d[k] = v on a dict modelled as a function (item assignment adds the key).
SetItem(d, k, v) == [x \in DOMAIN d \cup {k} |-> IF x = k THEN v ELSE d[x]]

Max(a, b) == IF a > b THEN a ELSE b

----------------------------------------------------------------------------
(* Character-level text operations *)

\* str.isspace for the characters the model uses.
IsSpace(c) == c \in {" ", "\t"}

IsDigit(c) == c \in {"0", "1", "2", "3", "4", "5", "6", "7", "8", "9"}

\* str.lower on one character, for the letters the model uses.
LowerChar(c) ==
    CASE c = "C" -> "c"
      [] c = "I" -> "i"
      [] c = "S" -> "s"
      [] c = "O" -> "o"
      [] c = "J" -> "j"
      [] c = "N" -> "n"
      [] OTHER -> c

Lower(s) == [i \in 1..Len(s) |-> LowerChar(s[i])]

RECURSIVE LStrip(_)
LStrip(s) == IF Len(s) > 0 /\ IsSpace(s[1]) THEN LStrip(Rest(s)) ELSE s

RECURSIVE RStrip(_)
RStrip(s) ==
    IF Len(s) > 0 /\ IsSpace(s[Len(s)]) THEN RStrip(SubSeq(s, 1, Len(s) - 1)) ELSE s

\* str.strip()
Strip(s) == RStrip(LStrip(s))

\* str.split(sep) for a one-character separator: Len = number of sep + 1,
\* empty segments kept.
RECURSIVE SplitAcc(_, _, _)
SplitAcc(s, sep, cur) ==
    IF Len(s) = 0 THEN <<cur>>
    ELSE IF s[1] = sep THEN <<cur>> \o SplitAcc(Rest(s), sep, <<>>)
    ELSE SplitAcc(Rest(s), sep, Append(cur, s[1]))

Split(s, sep) == SplitAcc(s, sep, <<>>)

\* re.split(r"[,;\s]+", value): a maximal run of separators is one cut.
IsStackSep(c) == c \in {",", ";"} \/ IsSpace(c)

RECURSIVE ReSplitAcc(_, _, _)
ReSplitAcc(s, cur, inRun) ==
    IF Len(s) = 0 THEN <<cur>>
    ELSE IF IsStackSep(s[1])
         THEN IF inRun THEN ReSplitAcc(Rest(s), cur, TRUE)
              ELSE <<cur>> \o ReSplitAcc(Rest(s), <<>>, TRUE)
    ELSE ReSplitAcc(Rest(s), Append(cur, s[1]), FALSE)

ReSplit(s) == ReSplitAcc(s, <<>>, FALSE)

\* [f(x) for x in xs if p(x)] with f = strip and p = non-empty after strip.
RECURSIVE StripAndDropEmpty(_)
StripAndDropEmpty(xs) ==
    IF Len(xs) = 0 THEN <<>>
    ELSE IF TruthySeq(Strip(xs[1]))
         THEN <<Strip(xs[1])>> \o StripAndDropEmpty(Rest(xs))
         ELSE StripAndDropEmpty(Rest(xs))

\* pat occurs in s at position i.
MatchAt(s, pat, i) ==
    /\ i + Len(pat) - 1 <= Len(s)
    /\ \A k \in 1..Len(pat) : s[i + k - 1] = pat[k]

\* re.search(pat, s, re.IGNORECASE) for a pattern of literal characters.
SearchIgnoreCase(pat, s) ==
    \E i \in 1..(Len(s) + 1) : MatchAt(Lower(s), Lower(pat), i)

\* Length of the maximal run of digits of s starting at position i.
RECURSIVE DigitRun(_, _)
DigitRun(s, i) == IF i <= Len(s) /\ IsDigit(s[i]) THEN 1 + DigitRun(s, i + 1) ELSE 0

\* Length of the match of \d+\.\d+(?:\.\d+)? anchored at position i, 0 if
\* none.  The regex is greedy; backtracking the first \d+ cannot help
\* because a shorter run is followed by a digit, not by the dot.
VersionMatchLen(s, i) ==
    LET a == DigitRun(s, i)
        dot1 == i + a
        b == IF a > 0 /\ dot1 <= Len(s) /\ s[dot1] = "." THEN DigitRun(s, dot1 + 1) ELSE 0
        dot2 == dot1 + 1 + b
        c == IF b > 0 /\ dot2 <= Len(s) /\ s[dot2] = "." THEN DigitRun(s, dot2 + 1) ELSE 0
    IN  IF a = 0 \/ b = 0 THEN 0
        ELSE IF c > 0 THEN a + 1 + b + 1 + c
        ELSE a + 1 + b

\* re.search(r"(\d+\.\d+(?:\.\d+)?)", s): leftmost match, <<>> if none.
RECURSIVE VersionSearchFrom(_, _)
VersionSearchFrom(s, i) ==
    IF i > Len(s) THEN <<>>
    ELSE IF VersionMatchLen(s, i) > 0 THEN SubSeq(s, i, i + VersionMatchLen(s, i) - 1)
    ELSE VersionSearchFrom(s, i + 1)

VersionSearch(s) == VersionSearchFrom(s, 1)

----------------------------------------------------------------------------
(* Bounds of the model *)

\* Device lookups started in one run.
MaxLookups == 2

\* Upstream responses in one run that are not the nominal success of their
\* endpoint: failed token exchanges, 401s, timeouts, HTTP errors, and
\* well-formed bodies other than the nominal one.
MaxAnomalies == 2

\* Seconds the clock advances in one step, and the horizon of the clock.
TickStep == 200
MaxTime == 400

\* Longest bug list handed to the bug filter on its own.
MaxBugList == 7

\* Longest serial field handed to the serial parsing on its own.
MaxSerialField == 6

\* Longest serial list handed to get_coverage_summary_bulk on its own
\* (the method keeps 75).
MaxSerialList == 78

----------------------------------------------------------------------------
(* Configuration: settings.PLUGINS_CONFIG["netbox_cisco_support"] *)

\* None for character-sequence names (cannot collide with a sequence of
\* one-character strings).
NoneSeq == <<None>>

\* bool(x) for a character-sequence-or-None value.
TruthyCS(s) == s # NoneSeq /\ Len(s) > 0

\* default_settings["manufacturer_pattern"] = r"cisco"
manufacturer_pattern == <<"c", "i", "s", "c", "o">>

\* default_settings["cache_timeout"]
cache_timeout == 300

\* data.get("expires_in", 3600)
DefaultExpiresIn == 3600

\* max(expires_in - 300, 60)
TokenSafetyMargin == 300
MinTokenCache == 60

\* serial_numbers[:75]
MaxBulkSerials == 75

\* [:5] of the bug lists, [:10] of the advisories
MaxBugs == 5
MaxAdvisories == 10

\* self.client_id[:8]
ClientIdPrefixLen == 8

ClientIdValue == <<"c", "l", "i", "e", "n", "t", "-", "0", "1", "x">>
ClientSecretValue == <<"s", "3", "c">>

\* The configurations a deployment can start with: both credentials set,
\* one of them left at its default "", or both keys absent (None).
Configs ==
    { [cisco_client_id |-> ClientIdValue, cisco_client_secret |-> ClientSecretValue],
      [cisco_client_id |-> <<>>,          cisco_client_secret |-> ClientSecretValue],
      [cisco_client_id |-> ClientIdValue, cisco_client_secret |-> <<>>],
      [cisco_client_id |-> NoneSeq,       cisco_client_secret |-> NoneSeq] }

----------------------------------------------------------------------------
(* Devices: the inventory records a lookup is asked about *)

MfrCisco == <<"C", "i", "s", "c", "o">>
MfrCiscoUpper == <<"C", "I", "S", "C", "O", " ", "S">>
MfrOther == <<"J", "u", "n", "o">>

NoCustomFields == [x \in {} |-> <<>>]

\* device.serial, device.device_type (has_type), .manufacturer (has_mfr),
\* .manufacturer.name, .model, device.custom_field_data (cf),
\* device.platform (has_platform), .name.
Device(serial, hasType, hasMfr, mfr, model, cf, hasPlatform, platform) ==
    [serial |-> serial, has_type |-> hasType, has_mfr |-> hasMfr, mfr_name |-> mfr,
     model |-> model, cf |-> cf, has_platform |-> hasPlatform, platform_name |-> platform]

DevEmptySerial == Device(<<>>, TRUE, TRUE, MfrCisco, "C9300-48P", NoCustomFields, FALSE, <<>>)
DevNoType == Device(<<"A">>, FALSE, FALSE, <<>>, "", NoCustomFields, FALSE, <<>>)
DevNoMfr == Device(<<"A">>, TRUE, FALSE, <<>>, "C9300-48P", NoCustomFields, FALSE, <<>>)
DevOtherMfr == Device(<<"A">>, TRUE, TRUE, MfrOther, "C9300-48P", NoCustomFields, FALSE, <<>>)

\* One serial, a model, nothing else.
DevPlain == Device(<<"A">>, TRUE, TRUE, MfrCisco, "C9300-48P", NoCustomFields, FALSE, <<>>)

\* A two-member stack in the serial field, a software version and a series
\* name in the custom fields.
DevStack ==
    Device(<<"A", ",", " ", "B">>, TRUE, TRUE, MfrCiscoUpper, "C9300-48P",
           [x \in {"software_version", "cc_series"} |->
               IF x = "software_version" THEN <<"1", "7", ".", "9">> ELSE <<"C", "a", "t">>],
           FALSE, <<>>)

\* No model, stack members in a custom field, the version in the platform name.
DevCustom ==
    Device(<<"A">>, TRUE, TRUE, MfrCisco, "",
           [x \in {"stack_serials"} |-> <<"B", ",", " ", "A", ";", " ", "C">>],
           TRUE, <<"I", "O", "S", " ", "1", "7", ".", "9">>)

\* One serial, a model, no custom field, the version in the platform name.
DevPlatform ==
    Device(<<"A">>, TRUE, TRUE, MfrCisco, "C9300-48P", NoCustomFields,
           TRUE, <<"I", "O", "S", " ", "1", "7", ".", "9">>)

Devices ==
    {DevEmptySerial, DevNoType, DevNoMfr, DevOtherMfr, DevPlain, DevStack, DevCustom,
     DevPlatform}

----------------------------------------------------------------------------
(* views.py: the gate and the identity resolution (pure functions) *)

\* Mutant: the serial check is left out of the gate.
GateWithoutSerialCheck(device) ==
    IF ~device.has_type \/ ~device.has_mfr THEN FALSE
    ELSE SearchIgnoreCase(manufacturer_pattern, device.mfr_name)

\* should_show_cisco_support_tab(device)
should_show_cisco_support_tab(device) ==
    IF ~TruthySeq(device.serial) THEN FALSE
    ELSE IF ~device.has_type \/ ~device.has_mfr THEN FALSE
    ELSE SearchIgnoreCase(manufacturer_pattern, device.mfr_name)

\* Mutant: the segments are not trimmed.
ParseSerialsUntrimmed(serial_field) ==
    IF ~TruthySeq(serial_field) THEN <<>>
    ELSE SelectSeq(Split(serial_field, ","), LAMBDA x : TruthySeq(Strip(x)))

\* DeviceCiscoSupportView._parse_serials(serial_field)
_parse_serials(serial_field) ==
    IF ~TruthySeq(serial_field) THEN <<>>
    ELSE StripAndDropEmpty(Split(serial_field, ","))

\* The custom fields _get_software_version consults, in order.
VersionFields == <<"software_version", "sw_version", "ios_version", "version">>

\* The custom fields _get_stack_serials consults, in order.
StackFieldsReversed == <<"member_serials", "stack_members", "stack_serials">>

StackFields == <<"stack_serials", "stack_members", "member_serials">>

\* First field of fields (in order) that is in cf with a truthy value; 0 if none.
RECURSIVE FirstTruthyField(_, _, _)
FirstTruthyField(cf, fields, i) ==
    IF i > Len(fields) THEN 0
    ELSE IF fields[i] \in DOMAIN cf /\ TruthyCS(cf[fields[i]]) THEN i
    ELSE FirstTruthyField(cf, fields, i + 1)

\* Mutant: the platform name is not searched for a version.
SoftwareVersionFromFieldsOnly(device) ==
    LET i == FirstTruthyField(device.cf, VersionFields, 1)
    IN  IF DOMAIN device.cf # {} /\ i > 0 THEN device.cf[VersionFields[i]]
        ELSE NoneSeq

\* DeviceCiscoSupportView._get_software_version(device)
_get_software_version(device) ==
    LET i == FirstTruthyField(device.cf, VersionFields, 1)
        m == VersionSearch(device.platform_name)
    IN  IF DOMAIN device.cf # {} /\ i > 0 THEN device.cf[VersionFields[i]]
        ELSE IF device.has_platform /\ TruthySeq(device.platform_name) /\ TruthySeq(m)
             THEN m
        ELSE NoneSeq

\* DeviceCiscoSupportView._get_stack_serials(device)
_get_stack_serials(device) ==
    LET i == FirstTruthyField(device.cf, StackFields, 1)
    IN  IF DOMAIN device.cf = {} THEN <<>>
        ELSE IF i > 0 THEN StripAndDropEmpty(ReSplit(device.cf[StackFields[i]]))
        ELSE <<>>

\* get(): all_serials, serial_number, stack_serials (views.py 110-114).
AllSerials(device) == _parse_serials(device.serial)

SerialNumber(device) ==
    IF TruthySeq(AllSerials(device)) THEN AllSerials(device)[1] ELSE device.serial

StackSerials(device) ==
    IF Len(AllSerials(device)) > 1 THEN Rest(AllSerials(device))
    ELSE _get_stack_serials(device)

\* get(): device_type_model (views.py 131-133).
DeviceTypeModel(device) ==
    IF device.has_type /\ Truthy(device.model) THEN device.model ELSE None

\* get(): cc_series (views.py 145-147).
CcSeries(device) ==
    IF DOMAIN device.cf # {} THEN Get(device.cf, "cc_series", NoneSeq) ELSE NoneSeq

\* [s for s in xs if s != x]
RECURSIVE Without(_, _)
Without(xs, x) ==
    IF Len(xs) = 0 THEN <<>>
    ELSE IF xs[1] # x THEN <<xs[1]>> \o Without(Rest(xs), x)
    ELSE Without(Rest(xs), x)

\* Mutant: the primary serial is not removed from the stack serials.
BulkSerialsKeepPrimary(serial_number, stack_serials) ==
    <<serial_number>> \o stack_serials

\* get(): the serial list of the bulk coverage call (views.py 240-242).
BulkSerials(serial_number, stack_serials) ==
    <<serial_number>> \o Without(stack_serials, serial_number)

\* Mutant: only the client id is required.
GetClientIdOnly(cfg) ==
    IF ~TruthyCS(cfg.cisco_client_id) THEN NoneRec
    ELSE [client_id |-> cfg.cisco_client_id, client_secret |-> cfg.cisco_client_secret,
          cache_timeout |-> cache_timeout, _token |-> NoneSeq, _token_expiry |-> 0]

\* get_client(): None unless both credentials are set (cisco_client.py 484-498),
\* else a fresh CiscoSupportClient (cisco_client.py 32-37).
get_client(cfg) ==
    IF ~TruthyCS(cfg.cisco_client_id) \/ ~TruthyCS(cfg.cisco_client_secret) THEN NoneRec
    ELSE [client_id |-> cfg.cisco_client_id, client_secret |-> cfg.cisco_client_secret,
          cache_timeout |-> cache_timeout, _token |-> NoneSeq, _token_expiry |-> 0]

----------------------------------------------------------------------------
(* The upstream API: what the token endpoint and the data endpoints answer *)

\* A JSON scalar that arrives as a string or as a number.
JStr(x) == [str |-> x]
JInt(n) == [int |-> n]

Bug(id, severity) == [bug_id |-> id, severity |-> severity]

\* The well-formed bodies each data method can receive; NominalBody is the
\* ordinary answer, the others are the data-absent and alternative shapes.
NominalBody(method) ==
    CASE method = "get_product_info" ->
            [product_list |-> <<[base_pid |-> "C9300-B", orderable_pid |-> "C9300-O"]>>]
      [] method = "get_eox_by_serial" ->
            [EOXRecord |-> <<[EOLProductID |-> "C9300-B"]>>]
      [] method \in {"get_bugs_by_keyword", "get_bugs_by_product",
                     "get_bugs_by_product_name_and_version",
                     "get_bugs_by_product_and_version"} ->
            [bugs |-> <<Bug("CSC1", JStr("4")), Bug("CSC2", JStr("2"))>>]
      [] method = "get_psirt_by_product" ->
            [advisories |-> <<[advisoryId |-> "sa-1"], [advisoryId |-> "sa-2"]>>]
      [] method = "get_software_suggestions" ->
            [productList |-> <<[id |-> "sw-1"]>>]
      [] method = "get_coverage_status" ->
            [serial_numbers |-> <<[sr_no |-> "A", is_covered |-> "YES"]>>]
      [] method = "get_coverage_summary_bulk" ->
            [serial_numbers |-> <<[sr_no |-> "A", is_covered |-> "YES"],
                                  [sr_no |-> "B", is_covered |-> "NO"]>>]

\* An upstream advisory list longer than the view shows.
AdvisoryIds ==
    <<"sa-1", "sa-2", "sa-3", "sa-4", "sa-5", "sa-6",
      "sa-7", "sa-8", "sa-9", "sa-10", "sa-11", "sa-12">>

ManyAdvisories == [i \in 1..Len(AdvisoryIds) |-> [advisoryId |-> AdvisoryIds[i]]]

OtherBodies(method) ==
    CASE method = "get_product_info" ->
            { [product_list |-> <<>>],
              [product_list |-> <<[base_pid |-> "", orderable_pid |-> "C9300-O"]>>] }
      [] method = "get_eox_by_serial" -> { [EOXRecord |-> <<>>] }
      [] method \in {"get_bugs_by_keyword", "get_bugs_by_product",
                     "get_bugs_by_product_name_and_version",
                     "get_bugs_by_product_and_version"} ->
            { [bugs |-> <<Bug("CSC3", JInt(5))>>], [bugs |-> <<>>] }
      [] method = "get_psirt_by_product" ->
            { [advisories |-> <<>>], [advisories |-> ManyAdvisories] }
      [] method = "get_software_suggestions" -> {}
      [] method = "get_coverage_status" -> { [serial_numbers |-> <<>>] }
      [] method = "get_coverage_summary_bulk" ->
            { [serial_numbers |-> <<>>],
              [serial_numbers |-> <<[sr_no |-> "A", is_covered |-> "YES"],
                                    [sr_no |-> "B", is_covered |-> "YES"],
                                    [sr_no |-> "C"]>>] }

\* What requests.get can end with: a 200 with a body, a 401, another HTTP
\* error status, a timeout, or a transport failure (a connection error).
OkResponse(body) == [kind |-> "http", status_code |-> 200, body |-> body]
HttpError(status) == [kind |-> "http", status_code |-> status]
TimedOut == [kind |-> "timeout"]
TransportFailure == [kind |-> "transport"]

GetOutcomes(method) ==
    {OkResponse(NominalBody(method))}
        \cup {OkResponse(b) : b \in OtherBodies(method)}
        \cup {HttpError(401), HttpError(500), TimedOut, TransportFailure}

\* A token: an opaque value minted by the authorization server.
Token(n) == <<"tok", n>>

\* What requests.post to the token endpoint can end with: a 200 whose body
\* has access_token and expires_in, a 200 without expires_in, a 200 without
\* access_token, or a RequestException (transport failure, timeout, non-2xx).
FailureCauses == {"timeout", "transport", "status"}

TokenOutcomes(n) ==
    { [kind |-> "ok", access_token |-> Token(n), expires_in |-> 3600],
      [kind |-> "ok", access_token |-> Token(n), expires_in |-> 100],
      [kind |-> "ok", access_token |-> Token(n)],
      [kind |-> "ok", expires_in |-> 3600] }
        \cup { [kind |-> "fail", cause |-> c] : c \in FailureCauses }

NominalTokenOutcome(n) == [kind |-> "ok", access_token |-> Token(n), expires_in |-> 3600]

\* Cost of an upstream answer against MaxAnomalies.
Anomaly(outcome, nominal) == IF outcome = nominal THEN 0 ELSE 1

----------------------------------------------------------------------------
(* django.core.cache: one shared key-value store with per-entry expiry *)

\* cache.get(key) finds an entry.
CacheLive(store, key, t) == key \in DOMAIN store /\ t < store[key].expires

\* cache.set(key, value, timeout)
CacheSet(store, key, value, ttl, t) ==
    SetItem(store, key, [value |-> value, expires |-> t + ttl])

\* cache.delete(key)
CacheDelete(store, key) == [k \in DOMAIN store \ {key} |-> store[k]]

\* Expired entries are gone.
Purge(store, t) == [k \in {x \in DOMAIN store : t < store[x].expires} |-> store[k]]

----------------------------------------------------------------------------
(* cisco_client.py: CiscoSupportClient *)

\* f"cisco_support_token_{self.client_id[:8]}"
TokenCacheKey(c) == <<"cisco_support_token", Take(c.client_id, ClientIdPrefixLen)>>

\* Mutant: the lifetime has no floor.
CacheDurationNoFloor(expires_in) == expires_in - TokenSafetyMargin

\* max(expires_in - 300, 60)
CacheDuration(expires_in) == Max(expires_in - TokenSafetyMargin, MinTokenCache)

\* Mutant: _get_token never looks for a stored token.
TokenAlwaysExchanged(store, c, t) == NoneSeq

\* _get_token() up to the POST: the token it returns without an exchange
\* (shared cache first, then the instance copy), NoneSeq if it must exchange.
TokenWithoutExchange(store, c, t) ==
    IF CacheLive(store, TokenCacheKey(c), t) /\ TruthyCS(store[TokenCacheKey(c)].value)
    THEN store[TokenCacheKey(c)].value
    ELSE IF TruthyCS(c._token) /\ t < c._token_expiry THEN c._token
    ELSE NoneSeq

\* _get_token() after the POST answered: the token it returns.
ExchangedToken(outcome) ==
    IF outcome.kind = "ok" THEN Get(outcome, "access_token", NoneSeq) ELSE NoneSeq

\* _get_token() after the POST answered: the client instance afterwards.
ClientAfterExchange(c, outcome, t) ==
    IF outcome.kind = "ok"
    THEN [c EXCEPT !._token = ExchangedToken(outcome),
                   !._token_expiry =
                       t + CacheDuration(Get(outcome, "expires_in", DefaultExpiresIn))]
    ELSE c

\* Mutant: cache.set runs whatever the POST ended with.
CacheAfterExchangeAlways(store, c, outcome, t) ==
    CacheSet(store, TokenCacheKey(c), ExchangedToken(outcome),
             CacheDuration(Get(outcome, "expires_in", DefaultExpiresIn)), t)

\* _get_token() after the POST answered: the shared cache afterwards.
CacheAfterExchange(store, c, outcome, t) ==
    IF outcome.kind = "ok"
    THEN CacheSet(store, TokenCacheKey(c), ExchangedToken(outcome),
                  CacheDuration(Get(outcome, "expires_in", DefaultExpiresIn)), t)
    ELSE store

\* _make_request on a 401: the shared token entry is deleted ...
CacheAfter401(store, c) == CacheDelete(store, TokenCacheKey(c))

\* Mutant: the instance copy survives the 401.
ClientKeptAfter401(c) == c

\* ... and the instance copy is cleared.
ClientAfter401(c) == [c EXCEPT !._token = NoneSeq, !._token_expiry = 0]

\* ",".join(serial_numbers), by halves (the lists can be long).
RECURSIVE JoinRange(_, _, _)
JoinRange(xs, lo, hi) ==
    IF lo > hi THEN <<>>
    ELSE IF lo = hi THEN xs[lo]
    ELSE JoinRange(xs, lo, (lo + hi) \div 2) \o <<",">>
            \o JoinRange(xs, ((lo + hi) \div 2) + 1, hi)

Join(xs) == JoinRange(xs, 1, Len(xs))

\* ord(c) for the characters the model uses.
Ord(c) ==
    CASE c = "A" -> 65 [] c = "B" -> 66 [] c = "C" -> 67 [] c = "a" -> 97
      [] c = "t" -> 116 [] c = "," -> 44 [] c = " " -> 32 [] c = "S" -> 83
      [] c = "0" -> 48 [] c = "1" -> 49 [] c = "2" -> 50 [] c = "3" -> 51
      [] c = "4" -> 52 [] c = "5" -> 53 [] c = "6" -> 54 [] c = "7" -> 55
      [] c = "8" -> 56 [] c = "9" -> 57 [] OTHER -> 63

\* hash(str): within one process a fixed function from strings to integers.
\* Modelled as the polynomial hash h -> 31 * h + ord(c) from 7, on a range
\* small enough for the checker, computed by halves (the strings can be long).
HashRange == 2 ^ 15

\* 31 ^ k in the range.
RECURSIVE HashPower(_)
HashPower(k) ==
    IF k = 0 THEN 1
    ELSE IF k % 2 = 0 THEN (HashPower(k \div 2) * HashPower(k \div 2)) % HashRange
    ELSE (HashPower(k - 1) * 31) % HashRange

\* The hash of s[lo..hi] from 0.
RECURSIVE HashOf(_, _, _)
HashOf(s, lo, hi) ==
    IF lo > hi THEN 0
    ELSE IF lo = hi THEN Ord(s[lo]) % HashRange
    ELSE (HashOf(s, lo, (lo + hi) \div 2) * HashPower(hi - ((lo + hi) \div 2))
            + HashOf(s, ((lo + hi) \div 2) + 1, hi)) % HashRange

Hash(s) == (7 * HashPower(Len(s)) + HashOf(s, 1, Len(s))) % HashRange

\* The cache key each data method computes from its arguments; the
\* defaulted parameters (severity, status, page_index, modified_date) are
\* part of the key.  A key is modelled as its prefix and its fields.
MethodKey(method, args) ==
    CASE method = "get_product_info" -> <<"cisco_product", args[1]>>
      [] method = "get_eox_by_serial" -> <<"cisco_eox", args[1]>>
      [] method = "get_bugs_by_product" -> <<"cisco_bugs", args[1], None, None, 1>>
      [] method = "get_bugs_by_product_and_version" ->
            <<"cisco_bugs_ver", args[1], args[2], None, None, 1>>
      [] method = "get_bugs_by_product_name_and_version" ->
            <<"cisco_bugs_name", Hash(args[1]), args[2], 5, None>>
      [] method = "get_bugs_by_keyword" -> <<"cisco_bugs_kw", args[1], None, None, 1>>
      [] method = "get_psirt_by_product" -> <<"cisco_psirt", args[1]>>
      [] method = "get_software_suggestions" -> <<"cisco_software", args[1]>>
      [] method = "get_coverage_status" -> <<"cisco_coverage", args[1]>>
      [] method = "get_coverage_summary_bulk" ->
            <<"cisco_coverage_bulk", Hash(Join(Take(args[1], MaxBulkSerials)))>>

\* The endpoint and query each data method requests.
MethodEndpoint(method, args) ==
    CASE method = "get_product_info" ->
            <<"/product/v1/information/serial_numbers/", args[1]>>
      [] method = "get_eox_by_serial" ->
            <<"/supporttools/eox/rest/5/EOXBySerialNumber/1/", args[1]>>
      [] method = "get_bugs_by_product" ->
            <<"/bug/v2.0/bugs/products/product_id/", args[1], "page_index", 1>>
      [] method = "get_bugs_by_product_and_version" ->
            <<"/bug/v2.0/bugs/products/product_id/", args[1], "/software_releases/",
              args[2], "page_index", 1>>
      [] method = "get_bugs_by_product_name_and_version" ->
            <<"/bug/v2.0/bugs/product_name/", args[1], "/affected_releases/", args[2],
              "modified_date", 5>>
      [] method = "get_bugs_by_keyword" ->
            <<"/bug/v2.0/bugs/keyword/", args[1], "page_index", 1>>
      [] method = "get_psirt_by_product" ->
            <<"/security/advisories/v2/product", "product", args[1]>>
      [] method = "get_software_suggestions" ->
            <<"/software/suggestion/v2/suggestions/software/productIds/", args[1]>>
      [] method = "get_coverage_status" ->
            <<"/sn2info/v2/coverage/status/serial_numbers/", args[1]>>
      [] method = "get_coverage_summary_bulk" ->
            <<"/sn2info/v2/coverage/summary/serial_numbers/",
              Join(Take(args[1], MaxBulkSerials))>>

\* Mutant: get_coverage_summary_bulk does not check for an empty list.
EarlyResultNever(method, args) == NoneRec

\* The result a data method returns before it looks at the cache, NoneRec
\* if it goes on (only get_coverage_summary_bulk has such a return).
EarlyResult(method, args) ==
    IF method = "get_coverage_summary_bulk" /\ ~TruthySeq(args[1])
    THEN [error |-> "No serial numbers provided"]
    ELSE NoneRec

\* A data method on a cache hit: the cached value with cached = True.
HitResult(store, key) == SetItem(store[key].value, "cached", TRUE)

\* A data method after _make_request returned: the value it returns ...
MethodResult(result) ==
    IF "error" \notin DOMAIN result THEN SetItem(result, "cached", FALSE) ELSE result

\* Mutant: the method forgets cache.set.
CacheAfterMethodNoStore(store, key, result, ttl, t) == store

\* Mutant: a key that is already stored is dropped instead of overwritten.
CacheAfterMethodDropsSecond(store, key, result, ttl, t) ==
    IF "error" \in DOMAIN result THEN store
    ELSE IF key \in DOMAIN store THEN CacheDelete(store, key)
    ELSE CacheSet(store, key, MethodResult(result), ttl, t)

\* Mutant: the method stores whatever _make_request returned.
CacheAfterMethodStoresErrors(store, key, result, ttl, t) ==
    CacheSet(store, key, MethodResult(result), ttl, t)

\* ... and the cache afterwards.
CacheAfterMethod(store, key, result, ttl, t) ==
    IF "error" \notin DOMAIN result
    THEN CacheSet(store, key, MethodResult(result), ttl, t)
    ELSE store

\* _make_request: the error results.
AuthFailed == [error |-> "Failed to authenticate with Cisco API"]

\* Mutant: the timeout is reported like an error status.
RequestTimedOutAsStatus == [error |-> "500 Server Error"]

RequestTimedOut == [error |-> "Request timed out"]

\* str(e) of a requests.ConnectionError.
ConnectionFailed == [error |-> "Connection error"]

\* str(e) of the HTTPError response.raise_for_status() raises.
StatusMessage(status) ==
    CASE status = 401 -> "401 Client Error"
      [] status = 500 -> "500 Server Error"
      [] OTHER -> "HTTP Error"

RaisedForStatus(status) == [error |-> StatusMessage(status)]

----------------------------------------------------------------------------
(* views.py: DeviceCiscoSupportView.get, the steps of one lookup *)

\* Mutant: the coverage call is moved in front of the advisories call.
BlocksCoverageEarly ==
    <<"product", "eox", "bugs_kw", "bugs_pid", "ver_name", "ver_pid",
      "coverage", "psirt", "software", "stack">>

\* The client calls of get() in program order; "render" follows the last.
Blocks ==
    <<"product", "eox", "bugs_kw", "bugs_pid", "ver_name", "ver_pid",
      "psirt", "software", "coverage", "stack">>

BlockIndex(b) == CHOOSE i \in 1..Len(Blocks) : Blocks[i] = b

NextBlock(b) ==
    IF BlockIndex(b) = Len(Blocks) THEN "render" ELSE Blocks[BlockIndex(b) + 1]

\* The client method each block calls.
BlockMethod(b) ==
    CASE b = "product" -> "get_product_info"
      [] b = "eox" -> "get_eox_by_serial"
      [] b = "bugs_kw" -> "get_bugs_by_keyword"
      [] b = "bugs_pid" -> "get_bugs_by_product"
      [] b = "ver_name" -> "get_bugs_by_product_name_and_version"
      [] b = "ver_pid" -> "get_bugs_by_product_and_version"
      [] b = "psirt" -> "get_psirt_by_product"
      [] b = "software" -> "get_software_suggestions"
      [] b = "coverage" -> "get_coverage_status"
      [] b = "stack" -> "get_coverage_summary_bulk"

\* The locals of get() after lines 91-114.
InitFrame(d) ==
    [software_version |-> _get_software_version(d),
     serial_number |-> SerialNumber(d),
     stack_serials |-> StackSerials(d),
     product_id |-> None, error |-> None,
     product_response |-> NoneRec, eox_response |-> NoneRec,
     bugs_response |-> NoneRec, bugs_ver_response |-> NoneRec,
     psirt_response |-> NoneRec, software_response |-> NoneRec,
     coverage_response |-> NoneRec, stack_response |-> NoneRec,
     product_data |-> NoneRec, eox_data |-> NoneRec, bugs_data |-> NoneRec,
     bugs_version_data |-> NoneRec, psirt_data |-> NoneRec, software_data |-> NoneRec,
     coverage_data |-> NoneRec, stack_coverage_data |-> NoneRec]

IsError(r) == "error" \in DOMAIN r

\* Mutant: the device-type model is preferred to the product id.
BugPidModelFirst(f, d) == OrElse(DeviceTypeModel(d), f.product_id)

\* bug_pid = product_id or device_type_model
BugPid(f, d) == OrElse(f.product_id, DeviceTypeModel(d))

\* Mutant: the bugs-by-product call does not look at the keyword result.
BlockCondProductBugsAlways(b, f, d) ==
    CASE b = "product" -> TRUE
      [] b = "eox" -> TruthySeq(f.serial_number) /\ ~Truthy(f.error)
      [] b = "bugs_kw" -> Truthy(DeviceTypeModel(d)) /\ ~Truthy(f.error)
      [] b = "bugs_pid" -> Truthy(BugPid(f, d)) /\ ~Truthy(f.error)
      [] b = "ver_name" ->
            TruthyCS(f.software_version) /\ ~Truthy(f.error) /\ TruthyCS(CcSeries(d))
      [] b = "ver_pid" ->
            /\ TruthyCS(f.software_version) /\ ~Truthy(f.error)
            /\ f.bugs_ver_response = NoneRec \/ IsError(f.bugs_ver_response)
            /\ Truthy(BugPid(f, d))
      [] b = "psirt" -> Truthy(f.product_id) /\ ~Truthy(f.error)
      [] b = "software" -> Truthy(f.product_id) /\ ~Truthy(f.error)
      [] b = "coverage" -> TruthySeq(f.serial_number) /\ ~Truthy(f.error)
      [] b = "stack" -> TruthySeq(f.stack_serials) /\ ~Truthy(f.error)

\* Mutant: the steps that only need the serial do not look at `error`.
BlockCondSerialStepsAlways(b, f, d) ==
    CASE b = "product" -> TRUE
      [] b = "eox" -> TruthySeq(f.serial_number)
      [] b = "bugs_kw" -> Truthy(DeviceTypeModel(d)) /\ ~Truthy(f.error)
      [] b = "bugs_pid" ->
            /\ f.bugs_response = NoneRec \/ IsError(f.bugs_response)
            /\ Truthy(BugPid(f, d))
            /\ ~Truthy(f.error)
      [] b = "ver_name" ->
            TruthyCS(f.software_version) /\ ~Truthy(f.error) /\ TruthyCS(CcSeries(d))
      [] b = "ver_pid" ->
            /\ TruthyCS(f.software_version) /\ ~Truthy(f.error)
            /\ f.bugs_ver_response = NoneRec \/ IsError(f.bugs_ver_response)
            /\ Truthy(BugPid(f, d))
      [] b = "psirt" -> Truthy(f.product_id) /\ ~Truthy(f.error)
      [] b = "software" -> Truthy(f.product_id) /\ ~Truthy(f.error)
      [] b = "coverage" -> TruthySeq(f.serial_number)
      [] b = "stack" -> TruthySeq(f.stack_serials) /\ ~Truthy(f.error)

\* Mutant: the product-id version call does not look at the name call's result.
BlockCondVersionPidAlways(b, f, d) ==
    CASE b = "product" -> TRUE
      [] b = "eox" -> TruthySeq(f.serial_number) /\ ~Truthy(f.error)
      [] b = "bugs_kw" -> Truthy(DeviceTypeModel(d)) /\ ~Truthy(f.error)
      [] b = "bugs_pid" ->
            /\ f.bugs_response = NoneRec \/ IsError(f.bugs_response)
            /\ Truthy(BugPid(f, d))
            /\ ~Truthy(f.error)
      [] b = "ver_name" ->
            TruthyCS(f.software_version) /\ ~Truthy(f.error) /\ TruthyCS(CcSeries(d))
      [] b = "ver_pid" ->
            /\ TruthyCS(f.software_version) /\ ~Truthy(f.error)
            /\ Truthy(BugPid(f, d))
      [] b = "psirt" -> Truthy(f.product_id) /\ ~Truthy(f.error)
      [] b = "software" -> Truthy(f.product_id) /\ ~Truthy(f.error)
      [] b = "coverage" -> TruthySeq(f.serial_number) /\ ~Truthy(f.error)
      [] b = "stack" -> TruthySeq(f.stack_serials) /\ ~Truthy(f.error)

\* Whether the block's call is made: the `if` in front of it.
BlockCond(b, f, d) ==
    CASE b = "product" -> TRUE
      [] b = "eox" -> TruthySeq(f.serial_number) /\ ~Truthy(f.error)
      [] b = "bugs_kw" -> Truthy(DeviceTypeModel(d)) /\ ~Truthy(f.error)
      [] b = "bugs_pid" ->
            /\ f.bugs_response = NoneRec \/ IsError(f.bugs_response)
            /\ Truthy(BugPid(f, d))
            /\ ~Truthy(f.error)
      [] b = "ver_name" ->
            TruthyCS(f.software_version) /\ ~Truthy(f.error) /\ TruthyCS(CcSeries(d))
      [] b = "ver_pid" ->
            /\ TruthyCS(f.software_version) /\ ~Truthy(f.error)
            /\ f.bugs_ver_response = NoneRec \/ IsError(f.bugs_ver_response)
            /\ Truthy(BugPid(f, d))
      [] b = "psirt" -> Truthy(f.product_id) /\ ~Truthy(f.error)
      [] b = "software" -> Truthy(f.product_id) /\ ~Truthy(f.error)
      [] b = "coverage" -> TruthySeq(f.serial_number) /\ ~Truthy(f.error)
      [] b = "stack" -> TruthySeq(f.stack_serials) /\ ~Truthy(f.error)

\* The arguments of the block's call.
BlockArgs(b, f, d) ==
    CASE b = "product" -> <<f.serial_number>>
      [] b = "eox" -> <<f.serial_number>>
      [] b = "bugs_kw" -> <<DeviceTypeModel(d)>>
      [] b = "bugs_pid" -> <<BugPid(f, d)>>
      [] b = "ver_name" -> <<CcSeries(d), f.software_version>>
      [] b = "ver_pid" -> <<BugPid(f, d), f.software_version>>
      [] b = "psirt" -> <<f.product_id>>
      [] b = "software" -> <<f.product_id>>
      [] b = "coverage" -> <<f.serial_number>>
      [] b = "stack" -> <<BulkSerials(f.serial_number, f.stack_serials)>>

\* b.get("severity") in ["1", "2", "3", 1, 2, 3]
HighSeverities == {JStr("1"), JStr("2"), JStr("3"), JInt(1), JInt(2), JInt(3)}

JNull == [null |-> TRUE]

IsHighSeverity(b) == Get(b, "severity", JNull) \in HighSeverities

\* Mutant: the list is cut to five before it is filtered.
TopBugsCutFirst(all_bugs) ==
    LET high == SelectSeq(Take(all_bugs, MaxBugs), IsHighSeverity)
    IN  IF TruthySeq(high) THEN high ELSE Take(all_bugs, MaxBugs)

\* The filtered list of the general bugs (views.py 169-174).
TopBugs(all_bugs) ==
    LET high_severity_bugs == Take(SelectSeq(all_bugs, IsHighSeverity), MaxBugs)
    IN  IF TruthySeq(high_severity_bugs) THEN high_severity_bugs
        ELSE Take(all_bugs, MaxBugs)

\* The filtered list of the version bugs (views.py 196-205).
TopVerBugs(all_ver_bugs) ==
    LET high_severity_ver_bugs == Take(SelectSeq(all_ver_bugs, IsHighSeverity), MaxBugs)
    IN  IF TruthySeq(high_severity_ver_bugs) THEN high_severity_ver_bugs
        ELSE Take(all_ver_bugs, MaxBugs)

\* Mutant: an empty product list is recorded as the top-level error.
ProcProductEmptyIsError(f, r) ==
    LET product_list == Get(r, "product_list", <<>>)
        first == product_list[1]
    IN  IF IsError(r) THEN [f EXCEPT !.product_response = r, !.error = r.error]
        ELSE IF TruthySeq(product_list)
        THEN [f EXCEPT !.product_response = r,
                       !.product_id = OrElse(Get(first, "base_pid", None),
                                             Get(first, "orderable_pid", None)),
                       !.product_data = SetItem(first, "cached", Get(r, "cached", FALSE))]
        ELSE [f EXCEPT !.product_response = r, !.error = "No product found"]

\* views.py 119-128
ProcProduct(f, r) ==
    LET product_list == Get(r, "product_list", <<>>)
        first == product_list[1]
    IN  IF IsError(r) THEN [f EXCEPT !.product_response = r, !.error = r.error]
        ELSE IF TruthySeq(product_list)
        THEN [f EXCEPT !.product_response = r,
                       !.product_id = OrElse(Get(first, "base_pid", None),
                                             Get(first, "orderable_pid", None)),
                       !.product_data = SetItem(first, "cached", Get(r, "cached", FALSE))]
        ELSE [f EXCEPT !.product_response = r]

\* Mutant: an EoX error is recorded as the top-level error.
ProcEoxSetsError(f, r) ==
    LET eox_records == Get(r, "EOXRecord", <<>>)
    IN  IF IsError(r) THEN [f EXCEPT !.eox_response = r, !.error = r.error]
        ELSE IF TruthySeq(eox_records)
        THEN [f EXCEPT !.eox_response = r,
                       !.eox_data = SetItem(eox_records[1], "cached", Get(r, "cached", FALSE))]
        ELSE [f EXCEPT !.eox_response = r]

\* views.py 138-142
ProcEox(f, r) ==
    LET eox_records == Get(r, "EOXRecord", <<>>)
    IN  IF ~IsError(r) /\ TruthySeq(eox_records)
        THEN [f EXCEPT !.eox_response = r,
                       !.eox_data = SetItem(eox_records[1], "cached", Get(r, "cached", FALSE))]
        ELSE [f EXCEPT !.eox_response = r]

\* views.py 167-176
BugsData(f) ==
    IF f.bugs_response # NoneRec /\ ~IsError(f.bugs_response)
    THEN [f EXCEPT !.bugs_data =
             [bugs |-> TopBugs(Get(f.bugs_response, "bugs", <<>>)),
              cached |-> Get(f.bugs_response, "cached", FALSE)]]
    ELSE f

\* views.py 194-208
VersionBugsData(f) ==
    IF f.bugs_ver_response # NoneRec /\ ~IsError(f.bugs_ver_response)
    THEN [f EXCEPT !.bugs_version_data =
             [bugs |-> TopVerBugs(Get(f.bugs_ver_response, "bugs", <<>>)),
              version |-> f.software_version,
              cached |-> Get(f.bugs_ver_response, "cached", FALSE)]]
    ELSE f

\* Mutant: total counts the advisories shown.
ProcPsirtTotalOfShown(f, r) ==
    LET advisories == Get(r, "advisories", <<>>)
    IN  IF ~IsError(r)
        THEN [f EXCEPT !.psirt_response = r,
                       !.psirt_data = [advisories |-> Take(advisories, MaxAdvisories),
                                       total |-> Len(Take(advisories, MaxAdvisories)),
                                       cached |-> Get(r, "cached", FALSE)]]
        ELSE [f EXCEPT !.psirt_response = r]

\* views.py 213-219
ProcPsirt(f, r) ==
    LET advisories == Get(r, "advisories", <<>>)
    IN  IF ~IsError(r)
        THEN [f EXCEPT !.psirt_response = r,
                       !.psirt_data = [advisories |-> Take(advisories, MaxAdvisories),
                                       total |-> Len(advisories),
                                       cached |-> Get(r, "cached", FALSE)]]
        ELSE [f EXCEPT !.psirt_response = r]

\* views.py 224-226
ProcSoftware(f, r) ==
    IF ~IsError(r)
    THEN [f EXCEPT !.software_response = r,
                   !.software_data = SetItem(r, "cached", Get(r, "cached", FALSE))]
    ELSE [f EXCEPT !.software_response = r]

\* Mutant: a coverage error is attached to the coverage sub-result.
ProcCoverageAttachesError(f, r) ==
    LET serial_numbers_list == Get(r, "serial_numbers", <<>>)
    IN  IF IsError(r) THEN [f EXCEPT !.coverage_response = r, !.coverage_data = r]
        ELSE IF TruthySeq(serial_numbers_list)
        THEN [f EXCEPT !.coverage_response = r,
                       !.coverage_data = SetItem(serial_numbers_list[1], "cached",
                                                 Get(r, "cached", FALSE))]
        ELSE [f EXCEPT !.coverage_response = r]

\* Mutant: a coverage error is recorded as the top-level error.
ProcCoverageSetsError(f, r) ==
    LET serial_numbers_list == Get(r, "serial_numbers", <<>>)
    IN  IF IsError(r) THEN [f EXCEPT !.coverage_response = r, !.error = r.error]
        ELSE IF TruthySeq(serial_numbers_list)
        THEN [f EXCEPT !.coverage_response = r,
                       !.coverage_data = SetItem(serial_numbers_list[1], "cached",
                                                 Get(r, "cached", FALSE))]
        ELSE [f EXCEPT !.coverage_response = r]

\* views.py 231-235
ProcCoverage(f, r) ==
    LET serial_numbers_list == Get(r, "serial_numbers", <<>>)
    IN  IF ~IsError(r) /\ TruthySeq(serial_numbers_list)
        THEN [f EXCEPT !.coverage_response = r,
                       !.coverage_data = SetItem(serial_numbers_list[1], "cached",
                                                 Get(r, "cached", FALSE))]
        ELSE [f EXCEPT !.coverage_response = r]

\* sum(1 for s in members if s.get("is_covered") == "YES")
CoveredCount(members) ==
    Cardinality({i \in 1..Len(members) : Get(members[i], "is_covered", None) = "YES"})

\* views.py 244-258
ProcStack(f, r) ==
    LET stack_serial_list == Get(r, "serial_numbers", <<>>)
    IN  IF ~IsError(r) /\ TruthySeq(stack_serial_list)
        THEN [f EXCEPT !.stack_response = r,
                       !.stack_coverage_data =
                           [members |-> stack_serial_list,
                            total |-> Len(stack_serial_list),
                            covered |-> CoveredCount(stack_serial_list),
                            not_covered |-> Len(stack_serial_list)
                                                - CoveredCount(stack_serial_list),
                            cached |-> Get(r, "cached", FALSE)]]
        ELSE [f EXCEPT !.stack_response = r]

\* The locals after the block's call returned r, up to the next block.
Proc(b, f, r) ==
    CASE b = "product" -> ProcProduct(f, r)
      [] b = "eox" -> ProcEox(f, r)
      [] b = "bugs_kw" -> [f EXCEPT !.bugs_response = r]
      [] b = "bugs_pid" -> BugsData([f EXCEPT !.bugs_response = r])
      [] b = "ver_name" -> [f EXCEPT !.bugs_ver_response = r]
      [] b = "ver_pid" -> VersionBugsData([f EXCEPT !.bugs_ver_response = r])
      [] b = "psirt" -> ProcPsirt(f, r)
      [] b = "software" -> ProcSoftware(f, r)
      [] b = "coverage" -> ProcCoverage(f, r)
      [] b = "stack" -> ProcStack(f, r)

\* The locals when the block's call is not made, up to the next block.
Skip(b, f) ==
    CASE b = "bugs_pid" -> BugsData(f)
      [] b = "ver_pid" -> VersionBugsData(f)
      [] OTHER -> f

\* The context get() renders when the gate fails (views.py 66-75).
GateContext ==
    [show_tab |-> FALSE,
     error |-> "Device does not meet requirements for Cisco Support lookup"]

\* The context get() renders without credentials (views.py 80-89).
NoCredentialsContext ==
    [show_tab |-> TRUE, error |-> "Cisco Support API credentials not configured"]

\* The context get() renders after the steps (views.py 260-281).
Context(f, d) ==
    [show_tab |-> TRUE, error |-> f.error, serial_number |-> f.serial_number,
     product_id |-> f.product_id, cc_series |-> CcSeries(d),
     software_version |-> f.software_version, product_data |-> f.product_data,
     eox_data |-> f.eox_data, bugs_data |-> f.bugs_data,
     bugs_version_data |-> f.bugs_version_data, psirt_data |-> f.psirt_data,
     software_data |-> f.software_data, coverage_data |-> f.coverage_data,
     stack_coverage_data |-> f.stack_coverage_data]

----------------------------------------------------------------------------
(* State *)

VARIABLES
    config,     \* settings.PLUGINS_CONFIG["netbox_cisco_support"]
    now,        \* time.time()
    cache,      \* django.core.cache.cache: key -> [value, expires]
    minted,     \* tokens the authorization server has issued
    anomalies,  \* upstream answers so far that were not the nominal one
    lookups,    \* lookups started
    vpc,        \* where DeviceCiscoSupportView.get is: "idle", a block, "render", "done"
    device,     \* the device of the current lookup
    client,     \* the CiscoSupportClient of the current lookup (get_client())
    frame,      \* the locals of get()
    call,       \* the client call in flight: where _make_request / _get_token wait
    log,        \* the client calls of the current lookup, in the order issued
    response,   \* the context get() rendered
    lastOk,     \* history: cache key -> time its last upstream success was stored
    lastErr,    \* history: the cache keys whose last call returned an error
    lastTok,    \* history: the last token exchanged and not invalidated since
    fn,         \* a function of the program applied on its own: name, arguments, result
    callers     \* two requests served at once: each one's place in get_product_info

vars ==
    <<config, now, cache, minted, anomalies, lookups, vpc, device, client, frame,
      call, log, response, lastOk, lastErr, lastTok, fn, callers>>

EmptyMap == <<>>

IdleCall == [pc |-> "idle"]

NoTok == [valid |-> FALSE, expires |-> 0]

NoFn == [name |-> "none"]

Init ==
    /\ config \in Configs
    /\ now = 0
    /\ cache = EmptyMap
    /\ minted = 0
    /\ anomalies = 0
    /\ lookups = 0
    /\ vpc = "idle"
    /\ device = DevPlain
    /\ client = NoneRec
    /\ frame = NoneRec
    /\ call = IdleCall
    /\ log = <<>>
    /\ response = NoneRec
    /\ lastOk = EmptyMap
    /\ lastErr = {}
    /\ lastTok = NoTok
    /\ fn = NoFn
    /\ callers = <<>>

----------------------------------------------------------------------------
(* The log of client calls (history) *)

\* Whether the key's last upstream success is still inside the cache TTL.
PriorSuccess(key) ==
    IF key \notin DOMAIN lastOk THEN "never"
    ELSE IF now < lastOk[key] + cache_timeout THEN "within"
    ELSE "expired"

\* The entry a call opens the log with.
LogEntry(b, method, args) ==
    [block |-> b, method |-> method, args |-> args, key |-> MethodKey(method, args),
     endpoint |-> MethodEndpoint(method, args), at |-> now,
     prior |-> PriorSuccess(MethodKey(method, args)),
     priorError |-> MethodKey(method, args) \in lastErr,
     tokenLive |-> lastTok.valid /\ now < lastTok.expires,
     hit |-> FALSE, posts |-> 0, postsFailed |-> 0, tokenFailure |-> "none",
     getFailure |-> "none", gets |-> 0, invalidations |-> 0, got401 |-> 0,
     reposts |-> 0, regets |-> 0, token |-> NoneSeq, result |-> NoneRec]

Last(lg) == lg[Len(lg)]

Bump(lg, field) == [lg EXCEPT ![Len(lg)][field] = @ + 1]

WithToken(lg, tok) == [lg EXCEPT ![Len(lg)].token = tok]

----------------------------------------------------------------------------
(* Actions *)

\* The clock advances; entries of the shared cache that expired are gone.
\* A lookup is short against the TTLs (seconds against minutes): time is
\* observed between lookups, not inside one.
Tick ==
    /\ vpc \in {"idle", "done"}
    /\ now + TickStep <= MaxTime
    /\ now' = now + TickStep
    /\ cache' = Purge(cache, now + TickStep)
    /\ UNCHANGED <<callers, fn, config, minted, anomalies, lookups, vpc, device, client, frame,
                   call, log, response, lastOk, lastErr, lastTok>>

\* get(request, pk) up to the first client call: the gate, get_client(),
\* the identity resolution.
StartLookup(d) ==
    /\ vpc \in {"idle", "done"}
    /\ lookups < MaxLookups
    /\ lookups' = lookups + 1
    /\ device' = d
    /\ log' = <<>>
    /\ call' = IdleCall
    /\ IF ~should_show_cisco_support_tab(d)
       THEN /\ response' = GateContext
            /\ vpc' = "done"
            /\ client' = NoneRec
            /\ frame' = NoneRec
       ELSE IF get_client(config) = NoneRec
       THEN /\ response' = NoCredentialsContext
            /\ vpc' = "done"
            /\ client' = NoneRec
            /\ frame' = NoneRec
       ELSE /\ response' = NoneRec
            /\ vpc' = Blocks[1]
            /\ client' = get_client(config)
            /\ frame' = InitFrame(d)
    /\ UNCHANGED <<callers, fn, config, now, cache, minted, anomalies, lastOk, lastErr, lastTok>>

\* The call of the current block returns `result` to get(): the block's
\* processing runs and get() moves to the next block.
Return(result, lg) ==
    /\ frame' = Proc(vpc, frame, result)
    /\ vpc' = NextBlock(vpc)
    /\ call' = IdleCall
    /\ log' = [lg EXCEPT ![Len(lg)].result = result]
    /\ lastErr' = IF IsError(result) THEN lastErr \cup {Last(lg).key}
                  ELSE lastErr \ {Last(lg).key}

\* The `if` in front of the block's call is false.
SkipBlock ==
    /\ vpc \in {Blocks[i] : i \in 1..Len(Blocks)}
    /\ call.pc = "idle"
    /\ ~BlockCond(vpc, frame, device)
    /\ frame' = Skip(vpc, frame)
    /\ vpc' = NextBlock(vpc)
    /\ UNCHANGED <<callers, fn, config, now, cache, minted, anomalies, lookups, device, client,
                   call, log, response, lastOk, lastErr, lastTok>>

\* The block calls its client method and the method returns without any
\* request: get_coverage_summary_bulk without serials, or a cache hit.
CallLocal ==
    /\ vpc \in {Blocks[i] : i \in 1..Len(Blocks)}
    /\ call.pc = "idle"
    /\ BlockCond(vpc, frame, device)
    /\ LET method == BlockMethod(vpc)
           args == BlockArgs(vpc, frame, device)
           key == MethodKey(method, args)
           entry == LogEntry(vpc, method, args)
       IN  /\ EarlyResult(method, args) # NoneRec \/ CacheLive(cache, key, now)
           /\ IF EarlyResult(method, args) # NoneRec
              THEN Return(EarlyResult(method, args), Append(log, entry))
              ELSE Return(HitResult(cache, key),
                          Append(log, [entry EXCEPT !.hit = TRUE]))
    /\ UNCHANGED <<callers, fn, config, now, cache, minted, anomalies, lookups, device, client,
                   response, lastOk, lastTok>>

\* The block calls its client method, the cache misses, and _make_request
\* sends its first request: the GET when _get_token has a token at hand,
\* else the token POST.
CallUpstream ==
    /\ vpc \in {Blocks[i] : i \in 1..Len(Blocks)}
    /\ call.pc = "idle"
    /\ BlockCond(vpc, frame, device)
    /\ LET method == BlockMethod(vpc)
           args == BlockArgs(vpc, frame, device)
           key == MethodKey(method, args)
           entry == LogEntry(vpc, method, args)
           token == TokenWithoutExchange(cache, client, now)
       IN  /\ EarlyResult(method, args) = NoneRec
           /\ ~CacheLive(cache, key, now)
           /\ IF TruthyCS(token)
              THEN /\ call' = [pc |-> "get", method |-> method, key |-> key, token |-> token]
                   /\ log' = WithToken(Bump(Append(log, entry), "gets"), token)
              ELSE /\ call' = [pc |-> "token", method |-> method, key |-> key,
                               token |-> NoneSeq]
                   /\ log' = Bump(Append(log, entry), "posts")
    /\ UNCHANGED <<callers, fn, config, now, cache, minted, anomalies, lookups, vpc, device, client,
                   frame, response, lastOk, lastErr, lastTok>>

\* The token endpoint answers the POST of _get_token; _make_request goes on:
\* without a token it returns (the authentication error on the first
\* attempt, the 401 raised for status on the retry), with one it sends the GET.
TokenResponse(outcome) ==
    /\ call.pc \in {"token", "retoken"}
    /\ anomalies + Anomaly(outcome, NominalTokenOutcome(minted + 1)) <= MaxAnomalies
    /\ anomalies' = anomalies + Anomaly(outcome, NominalTokenOutcome(minted + 1))
    /\ minted' = minted + 1
    /\ client' = ClientAfterExchange(client, outcome, now)
    /\ cache' = IF TruthyCS(ExchangedToken(outcome))
                THEN CacheAfterExchange(cache, client, outcome, now)
                ELSE CacheAfterMethod(CacheAfterExchange(cache, client, outcome, now),
                                      call.key,
                                      IF call.pc = "token" THEN AuthFailed
                                      ELSE RaisedForStatus(401),
                                      client.cache_timeout, now)
    /\ lastTok' = IF TruthyCS(ExchangedToken(outcome))
                  THEN [valid |-> TRUE,
                        expires |-> now + CacheDuration(Get(outcome, "expires_in",
                                                            DefaultExpiresIn))]
                  ELSE lastTok
    /\ IF TruthyCS(ExchangedToken(outcome))
       THEN /\ call' = [call EXCEPT !.pc = IF call.pc = "token" THEN "get" ELSE "reget",
                                    !.token = ExchangedToken(outcome)]
            /\ log' = WithToken(IF call.pc = "token" THEN Bump(log, "gets")
                                 ELSE Bump(Bump(log, "gets"), "regets"),
                                 ExchangedToken(outcome))
            /\ UNCHANGED <<frame, vpc, lastErr>>
       ELSE Return(IF call.pc = "token" THEN AuthFailed ELSE RaisedForStatus(401),
                   IF outcome.kind = "fail"
                   THEN [Bump(log, "postsFailed") EXCEPT ![Len(log)].tokenFailure =
                                                             outcome.cause]
                   ELSE log)
    /\ UNCHANGED <<callers, fn, config, now, lookups, device, response, lastOk>>

\* A data endpoint answers the GET of _make_request with a 200: the method
\* stores the body in the cache and returns it.
GetOk(outcome) ==
    /\ call.pc \in {"get", "reget"}
    /\ outcome.kind = "http" /\ outcome.status_code = 200
    /\ anomalies + Anomaly(outcome, OkResponse(NominalBody(call.method))) <= MaxAnomalies
    /\ anomalies' = anomalies + Anomaly(outcome, OkResponse(NominalBody(call.method)))
    /\ cache' = CacheAfterMethod(cache, call.key, outcome.body, client.cache_timeout, now)
    /\ lastOk' = SetItem(lastOk, call.key, now)
    /\ Return(MethodResult(outcome.body), log)
    /\ UNCHANGED <<callers, fn, config, now, minted, lookups, device, client, response, lastTok>>

\* Mutant: a 401 on the retried GET is handled like the first one.
GetUnauthorizedAgain ==
    /\ call.pc \in {"get", "reget"}
    /\ anomalies + 1 <= MaxAnomalies
    /\ anomalies' = anomalies + 1
    /\ cache' = CacheAfter401(cache, client)
    /\ client' = ClientAfter401(client)
    /\ lastTok' = NoTok
    /\ LET token == TokenWithoutExchange(CacheAfter401(cache, client),
                                         ClientAfter401(client), now)
           lg == Bump(Bump(log, "got401"), "invalidations")
       IN  IF TruthyCS(token)
           THEN /\ call' = [call EXCEPT !.pc = "reget", !.token = token]
                /\ log' = WithToken(Bump(Bump(lg, "gets"), "regets"), token)
           ELSE /\ call' = [call EXCEPT !.pc = "retoken", !.token = NoneSeq]
                /\ log' = WithToken(Bump(Bump(lg, "posts"), "reposts"), NoneSeq)
    /\ UNCHANGED <<callers, fn, config, now, minted, lookups, vpc, device, frame, response, lastOk, lastErr>>

\* A data endpoint answers the first GET with a 401: the token is
\* invalidated and _get_token is asked again; the GET is retried with the
\* token it has at hand, else the token POST is sent.
GetUnauthorized ==
    /\ call.pc = "get"
    /\ anomalies + 1 <= MaxAnomalies
    /\ anomalies' = anomalies + 1
    /\ cache' = CacheAfter401(cache, client)
    /\ client' = ClientAfter401(client)
    /\ lastTok' = NoTok
    /\ LET token == TokenWithoutExchange(CacheAfter401(cache, client),
                                         ClientAfter401(client), now)
           lg == Bump(Bump(log, "got401"), "invalidations")
       IN  IF TruthyCS(token)
           THEN /\ call' = [call EXCEPT !.pc = "reget", !.token = token]
                /\ log' = WithToken(Bump(Bump(lg, "gets"), "regets"), token)
           ELSE /\ call' = [call EXCEPT !.pc = "retoken", !.token = NoneSeq]
                /\ log' = WithToken(Bump(Bump(lg, "posts"), "reposts"), NoneSeq)
    /\ UNCHANGED <<callers, fn, config, now, minted, lookups, vpc, device, frame, response, lastOk, lastErr>>

\* A GET fails for good: a timeout, a transport failure, an error status,
\* or a 401 on the retry.  _make_request returns the error result and the
\* method, finding "error" in it, returns it without cache.set.
GetFailed(outcome) ==
    /\ call.pc \in {"get", "reget"}
    /\ \/ outcome.kind \in {"timeout", "transport"}
       \/ outcome.kind = "http" /\ outcome.status_code = 500
       \/ outcome.kind = "http" /\ outcome.status_code = 401 /\ call.pc = "reget"
    /\ anomalies + 1 <= MaxAnomalies
    /\ anomalies' = anomalies + 1
    /\ cache' = CacheAfterMethod(cache, call.key,
                                 CASE outcome.kind = "timeout" -> RequestTimedOut
                                   [] outcome.kind = "transport" -> ConnectionFailed
                                   [] OTHER -> RaisedForStatus(outcome.status_code),
                                 client.cache_timeout, now)
    /\ Return(CASE outcome.kind = "timeout" -> RequestTimedOut
                [] outcome.kind = "transport" -> ConnectionFailed
                [] OTHER -> RaisedForStatus(outcome.status_code),
              LET lg == [log EXCEPT ![Len(log)].getFailure =
                            IF outcome.kind = "http" THEN "status" ELSE outcome.kind]
              IN  IF outcome.kind = "http" /\ outcome.status_code = 401
                  THEN Bump(lg, "got401") ELSE lg)
    /\ UNCHANGED <<callers, fn, config, now, minted, lookups, device, client, response,
                   lastOk, lastTok>>

\* get() renders the context and returns: its locals and its client are gone.
Render ==
    /\ vpc = "render"
    /\ response' = Context(frame, device)
    /\ vpc' = "done"
    /\ frame' = NoneRec
    /\ client' = NoneRec
    /\ UNCHANGED <<callers, fn, config, now, cache, minted, anomalies, lookups, device,
                   call, log, lastOk, lastErr, lastTok>>

\* The answers the request in flight can get.
PendingGetOutcomes ==
    IF call.pc \in {"get", "reget"} THEN GetOutcomes(call.method) ELSE {}

Next ==
    \/ Tick
    \/ \E d \in Devices : StartLookup(d)
    \/ SkipBlock
    \/ CallLocal
    \/ CallUpstream
    \/ \E o \in TokenOutcomes(minted + 1) : TokenResponse(o)
    \/ \E o \in PendingGetOutcomes : GetOk(o)
    \/ GetUnauthorized
    \/ \E o \in PendingGetOutcomes : GetFailed(o)
    \/ Render

Spec == Init /\ [][Next]_vars

----------------------------------------------------------------------------
(* Properties *)

\* A device fails the gate: empty serial, no device type or manufacturer,
\* or a manufacturer name without "cisco" in any letter case.
FailsGate(d) ==
    \/ d.serial = <<>>
    \/ ~d.has_type
    \/ ~d.has_mfr
    \/ ~SearchIgnoreCase(<<"c", "i", "s", "c", "o">>, d.mfr_name)

\* client_id or client_secret is missing or empty.
CredentialsMissing(cfg) ==
    \/ cfg.cisco_client_id \in {NoneSeq, <<>>}
    \/ cfg.cisco_client_secret \in {NoneSeq, <<>>}

\* No token exchange and no data GET has been answered or is in flight
\* for the current lookup, and no client method was entered.
NoUpstreamCall == log = <<>> /\ call.pc = "idle"

\* C1: for every device that fails the gate, the lookup returns
\* show=false and issues zero upstream calls (no token exchange, no data
\* GET); it never enters a step of the sequence.
C1_GateFailure ==
    (lookups > 0 /\ FailsGate(device)) =>
        /\ vpc = "done"
        /\ response.show_tab = FALSE
        /\ NoUpstreamCall

\* C1 witness: a lookup of a device of another manufacturer has returned
\* under a configuration with credentials.
C1_Witness ==
    /\ vpc = "done" /\ lookups > 0
    /\ device = DevOtherMfr
    /\ ~CredentialsMissing(config)
    /\ response.show_tab = FALSE

\* C2: for every device that passes the gate, if client_id or
\* client_secret is missing or empty the lookup returns show=true with the
\* "credentials not configured" error and issues zero upstream calls; no
\* step of the sequence runs (no token is ever minted, nothing is cached).
C2_NoCredentials ==
    (lookups > 0 /\ ~FailsGate(device) /\ CredentialsMissing(config)) =>
        /\ vpc = "done"
        /\ response.show_tab = TRUE
        /\ response.error = "Cisco Support API credentials not configured"
        /\ NoUpstreamCall
        /\ minted = 0
        /\ cache = EmptyMap

\* C2 witness: a gate-passing device was looked up with an empty secret.
C2_Witness ==
    /\ vpc = "done" /\ lookups > 0
    /\ device = DevStack
    /\ config.cisco_client_id = ClientIdValue
    /\ config.cisco_client_secret = <<>>
    /\ response.show_tab = TRUE

\* The log entries of the current lookup whose call has returned.
Returned == {i \in 1..Len(log) : log[i].result # NoneRec}

\* The entries that went upstream (a token POST or a data GET was sent).
WentUpstream(e) == e.posts + e.gets > 0

\* The value carries the fromCache annotation b.
Annotated(r, b) == "cached" \in DOMAIN r /\ r.cached = b

\* C3 as claimed: a second call with the same key inside the TTL returns
\* fromCache=true with zero upstream calls; after the TTL expired the call
\* returns fromCache=false and issues exactly one upstream data call.
C3_Original ==
    \A i \in Returned :
        /\ log[i].prior = "within" =>
              /\ Annotated(log[i].result, TRUE)
              /\ log[i].gets = 0 /\ log[i].posts = 0
        /\ log[i].prior = "expired" =>
              /\ Annotated(log[i].result, FALSE)
              /\ log[i].gets = 1

\* C3 (amended): inside the TTL the call returns fromCache=true with zero
\* upstream calls.  After the TTL expired the cache is not used and the
\* call goes upstream; a result that is not an error carries
\* fromCache=false; exactly one data GET is sent when a token is obtained
\* and the GET is not answered 401, and never more than two.
C3_CacheWindow ==
    \A i \in Returned :
        /\ log[i].prior = "within" =>
              /\ log[i].hit
              /\ Annotated(log[i].result, TRUE)
              /\ log[i].gets = 0 /\ log[i].posts = 0
        /\ log[i].prior = "expired" =>
              /\ ~log[i].hit
              /\ WentUpstream(log[i])
              /\ ~IsError(log[i].result) => Annotated(log[i].result, FALSE)
              /\ (log[i].got401 = 0 /\ TruthyCS(log[i].token)) => log[i].gets = 1
              /\ log[i].gets <= 2

\* C3 witness: a key stored by an earlier lookup has expired, the call
\* went upstream with one GET and returned fromCache=false, while the
\* earlier lookup is the one that stored it.
C3_Witness ==
    \E i \in Returned :
        /\ log[i].prior = "expired"
        /\ log[i].gets = 1
        /\ Annotated(log[i].result, FALSE)
        /\ lookups = 2

\* The next entry after i that went upstream, 0 if none.
NextUpstream(i) ==
    IF \E j \in (i + 1)..Len(log) : WentUpstream(log[j])
    THEN CHOOSE j \in (i + 1)..Len(log) :
            /\ WentUpstream(log[j])
            /\ \A k \in (i + 1)..(j - 1) : ~WentUpstream(log[k])
    ELSE 0

\* C4: two sequential uncached data calls inside the token's validity
\* window, no 401 in between, trigger exactly one token exchange: a call
\* that starts while an exchanged token is still valid sends no token
\* POST, and the call after one that exchanged reuses that very token.
C4_TokenReuse ==
    /\ \A i \in Returned :
          (log[i].tokenLive /\ WentUpstream(log[i]) /\ log[i].got401 = 0) =>
              log[i].posts = 0 /\ log[i].gets = 1
    /\ \A i \in Returned :
          LET j == NextUpstream(i)
          IN  (/\ j \in Returned
               /\ log[i].posts = 1 /\ TruthyCS(log[i].token)
               /\ log[i].got401 = 0 /\ log[j].got401 = 0) =>
                  /\ log[i].posts + log[j].posts = 1
                  /\ log[j].token = log[i].token

\* C4 witness: the first call of a lookup exchanged a token and the next
\* two uncached calls were sent with it, without a second exchange.
C4_Witness ==
    /\ Len(log) >= 3
    /\ 3 \in Returned
    /\ log[1].posts = 1 /\ log[1].gets = 1
    /\ log[2].posts = 0 /\ log[2].gets = 1 /\ log[2].token = log[1].token
    /\ log[3].posts = 0 /\ log[3].gets = 1 /\ log[3].token = log[1].token

\* C5 as claimed: a data call whose GET receives a 401 performs exactly
\* one invalidation, exactly one re-exchange and exactly one retried GET;
\* a 401 on the retry returns an error result without further retry.
C5_Original ==
    \A i \in Returned :
        log[i].got401 >= 1 =>
            /\ log[i].invalidations = 1
            /\ log[i].reposts = 1
            /\ log[i].regets = 1
            /\ log[i].got401 = 2 => IsError(log[i].result)

\* C5 (amended): a data call whose GET receives a 401 performs exactly
\* one invalidation (shared and instance copies both cleared) and exactly
\* one re-exchange; it retries the GET exactly once when the re-exchange
\* yields a token and not at all otherwise, returning an error result
\* then; a 401 on the retry returns an error result, no further retry.
C5_RetryOnce ==
    /\ \A i \in Returned :
          log[i].got401 >= 1 =>
              /\ log[i].invalidations = 1
              /\ log[i].reposts = 1
              /\ log[i].regets = IF TruthyCS(log[i].token) THEN 1 ELSE 0
              /\ log[i].regets = 0 => IsError(log[i].result)
              /\ log[i].got401 = 2 => IsError(log[i].result)
              /\ log[i].got401 <= 2 /\ log[i].gets <= 2
    /\ call.pc = "retoken" =>
          /\ ~CacheLive(cache, TokenCacheKey(client), now)
          /\ client._token = NoneSeq
          /\ Last(log).invalidations = 1 /\ Last(log).reposts = 1

\* C5 witness: a call got a 401, re-exchanged, retried, got a second 401
\* and returned the error.
C5_Witness ==
    \E i \in Returned :
        /\ log[i].got401 = 2
        /\ log[i].invalidations = 1 /\ log[i].reposts = 1 /\ log[i].regets = 1
        /\ log[i].result = RaisedForStatus(401)

\* The blocks whose call the current lookup has issued.
Issued == {log[i].block : i \in 1..Len(log)}

\* The log entry of an issued block (a block is called at most once).
EntryOf(b) == log[CHOOSE i \in 1..Len(log) : log[i].block = b]

\* The call of block b was issued and returned an error result.
Errored(b) == b \in Issued /\ IsError(EntryOf(b).result)

\* The product-info call returned an error result.
ProductFailed == Len(log) >= 1 /\ IsError(log[1].result)

\* The product-info call returned a result that is not an error.
ProductSucceeded == 1 \in Returned /\ ~IsError(log[1].result)

\* The sub-results of the rendered aggregate record.
DataFields ==
    {"product_data", "eox_data", "bugs_data", "bugs_version_data", "psirt_data",
     "software_data", "coverage_data", "stack_coverage_data"}

HasModel(d) == d.has_type /\ d.model # ""
HasVersion == response.software_version # NoneSeq
HasSeries == response.cc_series \notin {NoneSeq, <<>>}
HasProductId == response.product_id \notin {None, ""}
HasBugPid == HasProductId \/ HasModel(device)

ExpectedIssued(b) ==
    CASE b = "eox" -> TRUE
      [] b = "bugs_kw" -> HasModel(device)
      [] b = "bugs_pid" -> HasBugPid /\ (~HasModel(device) \/ Errored("bugs_kw"))
      [] b = "ver_name" -> HasVersion /\ HasSeries
      [] b = "ver_pid" -> HasVersion /\ HasBugPid /\ (~HasSeries \/ Errored("ver_name"))
      [] b = "psirt" -> HasProductId
      [] b = "software" -> HasProductId
      [] b = "coverage" -> TRUE
      [] b = "stack" -> StackSerials(device) # <<>>

\* C7: when product-info succeeds, an error or timeout in a later step
\* never prevents a later step from being issued: whether a step is
\* called depends on the device and the product id only (and, for a
\* fallback call, on the call it backs up), never on the outcome of
\* another step.
C7_StepsIndependent ==
    (vpc = "done" /\ ProductSucceeded) =>
        \A b \in {"eox", "bugs_kw", "bugs_pid", "ver_name", "ver_pid", "psirt",
                  "software", "coverage", "stack"} :
            b \in Issued <=> ExpectedIssued(b)

\* C7 witness: the EoX call failed and the advisories, software,
\* coverage and stack coverage calls were all issued after it.
C7_Witness ==
    /\ vpc = "done" /\ ProductSucceeded
    /\ Errored("eox")
    /\ {"psirt", "software", "coverage", "stack"} \subseteq Issued

\* The sub-result each block fills.
DataField(b) ==
    CASE b = "product" -> "product_data"
      [] b = "eox" -> "eox_data"
      [] b \in {"bugs_kw", "bugs_pid"} -> "bugs_data"
      [] b \in {"ver_name", "ver_pid"} -> "bugs_version_data"
      [] b = "psirt" -> "psirt_data"
      [] b = "software" -> "software_data"
      [] b = "coverage" -> "coverage_data"
      [] b = "stack" -> "stack_coverage_data"

\* The step of block b ended with an error: its call returned an error
\* result and no fallback call of the same step followed.
StepFailed(b) ==
    /\ Errored(b)
    /\ b = "bugs_kw" => "bugs_pid" \notin Issued
    /\ b = "ver_name" => "ver_pid" \notin Issued

NoData(b, listField) ==
    /\ b \in Issued
    /\ ~IsError(EntryOf(b).result)
    /\ Get(EntryOf(b).result, listField, <<>>) = <<>>

C9_TopLevelError ==
    (vpc = "done" /\ lookups > 0 /\ ~FailsGate(device)) =>
        /\ response # NoneRec
        /\ response.show_tab = TRUE
        /\ response.error # None =>
              \/ CredentialsMissing(config) /\ log = <<>>
              \/ ProductFailed /\ response.error = log[1].result.error
        /\ (\E b \in Issued \ {"product"} : Errored(b)) => response.error = None

\* C9 witness: two later steps failed and the record came back without a
\* top-level error.
C9_Witness ==
    /\ vpc = "done" /\ ProductSucceeded
    /\ Errored("coverage") /\ Errored("psirt")
    /\ response.show_tab = TRUE
    /\ response.error = None

\* The order of the data calls of one lookup.
CallOrder ==
    <<"get_product_info", "get_eox_by_serial", "get_bugs_by_keyword",
      "get_bugs_by_product", "get_bugs_by_product_name_and_version",
      "get_bugs_by_product_and_version", "get_psirt_by_product",
      "get_software_suggestions", "get_coverage_status", "get_coverage_summary_bulk">>

CallRank(method) == CHOOSE i \in 1..Len(CallOrder) : CallOrder[i] = method

\* C10: within one lookup the data calls are issued one after another in
\* the order product-info, EoX-by-serial, bugs by keyword, bugs by product
\* id, version bugs by product name, version bugs by product id and
\* release, advisories, software suggestions, coverage-by-serial,
\* coverage-bulk; a call is issued only after the previous one returned.
C10_Sequential ==
    /\ \A i, j \in 1..Len(log) :
          i < j => CallRank(log[i].method) < CallRank(log[j].method)
    /\ \A i \in 1..(Len(log) - 1) : i \in Returned
    /\ call.pc # "idle" <=> (Len(log) >= 1 /\ Last(log).result = NoneRec)

\* C10 witness: a lookup that issued all ten calls, both fallbacks taken.
C10_Witness ==
    /\ vpc = "done"
    /\ Len(log) = 10
    /\ Errored("bugs_kw") /\ Errored("ver_name")

\* 1 if the call of block b returned an error result, else 0.
ErrorCount(b) == IF Errored(b) THEN 1 ELSE 0

\* C11 as claimed: a single lookup issues at most nine client calls.
C11_Original == Len(log) <= 9

\* C11 (amended): a single lookup issues at most ten client calls, each
\* method at most once: at most eight when no bug fallback is taken and
\* one more for each fallback chain taken (keyword call failed, name call
\* failed), so nine with one chain and ten with both.
C11_AtMostTen ==
    /\ Len(log) <= 10
    /\ \A i, j \in 1..Len(log) : log[i].method = log[j].method => i = j
    /\ Len(log) <= 8 + ErrorCount("bugs_kw") + ErrorCount("ver_name")

\* C11 witness: both fallback chains taken, ten calls issued, and the
\* fallbacks delivered the bug lists.
C11_Witness ==
    /\ vpc = "done"
    /\ {"bugs_kw", "bugs_pid", "ver_name", "ver_pid"} \subseteq Issued
    /\ Len(log) = 10
    /\ response.bugs_data # NoneRec /\ response.bugs_version_data # NoneRec

----------------------------------------------------------------------------
(* Functions of the program applied on their own, on inputs wider than    *)
(* the ones a lookup of the devices above produces                        *)

\* The state in which no lookup has been made.
MainVars ==
    <<config, now, cache, minted, anomalies, lookups, vpc, device, client, frame,
      call, log, response, lastOk, lastErr, lastTok>>

InitFn ==
    /\ config = [cisco_client_id |-> ClientIdValue, cisco_client_secret |-> ClientSecretValue]
    /\ now = 0
    /\ cache = EmptyMap
    /\ minted = 0
    /\ anomalies = 0
    /\ lookups = 0
    /\ vpc = "idle"
    /\ device = DevPlain
    /\ client = NoneRec
    /\ frame = NoneRec
    /\ call = IdleCall
    /\ log = <<>>
    /\ response = NoneRec
    /\ lastOk = EmptyMap
    /\ lastErr = {}
    /\ lastTok = NoTok
    /\ fn = NoFn
    /\ callers = <<>>

\* The values the "severity" of an upstream bug entry takes: strings and
\* numbers inside and outside 1..3, or no severity at all.
SeverityChoices == {JStr("2"), JInt(1), JStr("4"), JInt(6), JNull}

\* The bug list with the given severities; entry i carries bug_id i.
BugList(sev) ==
    [i \in 1..Len(sev) |-> IF sev[i] = JNull THEN [bug_id |-> i]
                           ELSE [bug_id |-> i, severity |-> sev[i]]]

\* views.py 169-174 and 196-205 on one upstream bug list.
FilterBugs(all_bugs) ==
    /\ fn = NoFn
    /\ fn' = [name |-> "filter_bugs", all_bugs |-> all_bugs,
              high_severity_bugs |-> TopBugs(all_bugs),
              high_severity_ver_bugs |-> TopVerBugs(all_bugs)]
    /\ UNCHANGED <<MainVars, callers>>

\* The characters of the serial fields tried, and the field of the
\* documented example, "FCW1,  FCW2 ,FCW3".
SerialChars == {"A", "B", ",", " ", "\t"}

ExampleSerialField ==
    <<"F", "C", "W", "1", ",", " ", " ", "F", "C", "W", "2", " ", ",", "F", "C", "W", "3">>

\* A device known by its serial field alone.
SerialOnlyDevice(serial_field) ==
    Device(serial_field, TRUE, TRUE, MfrCisco, "C9300-48P", NoCustomFields, FALSE, <<>>)

\* views.py 110-114 on one serial field, and the argument of the by-serial
\* calls (views.py 117, 137, 230).
ResolveSerials(serial_field) ==
    /\ fn = NoFn
    /\ LET d == SerialOnlyDevice(serial_field)
       IN  fn' = [name |-> "resolve_serials", serial_field |-> serial_field,
                  all_serials |-> AllSerials(d),
                  serial_number |-> SerialNumber(d),
                  stack_serials |-> StackSerials(d),
                  by_serial |-> {BlockArgs(b, InitFrame(d), d) :
                                    b \in {"product", "eox", "coverage"}}]
    /\ UNCHANGED <<MainVars, callers>>

\* The decimal digit of n at the given power of ten.
Digit(n, power) ==
    <<"0", "1", "2", "3", "4", "5", "6", "7", "8", "9">>[((n \div power) % 10) + 1]

\* Serial number i of a large stack: "S" and three digits.
Serial(i) == <<"S", Digit(i, 100), Digit(i, 10), Digit(i, 1)>>

\* The serial lists tried: n distinct serials, counting up or down.
SerialList(n, up) == [i \in 1..n |-> IF up THEN Serial(i) ELSE Serial(n + 1 - i)]

\* CiscoSupportClient.get_coverage_summary_bulk(serial_numbers) called on
\* a fresh client with an empty cache and a healthy upstream: the early
\* return, or the token exchange, the GET and the cache.set.
CoverageSummaryBulk(serial_numbers) ==
    /\ fn = NoFn
    /\ LET method == "get_coverage_summary_bulk"
           args == <<serial_numbers>>
           key == MethodKey(method, args)
           c == get_client(config)
           outcome == NominalTokenOutcome(minted + 1)
           body == NominalBody(method)
           entry == LogEntry("stack", method, args)
       IN  IF EarlyResult(method, args) # NoneRec
           THEN /\ log' = <<[entry EXCEPT !.result = EarlyResult(method, args)]>>
                /\ fn' = [name |-> "get_coverage_summary_bulk",
                          serial_numbers |-> serial_numbers,
                          result |-> EarlyResult(method, args)]
                /\ UNCHANGED <<cache, client, minted, lastOk, lastTok>>
           ELSE /\ ~CacheLive(cache, key, now)
                /\ TokenWithoutExchange(cache, c, now) = NoneSeq
                /\ minted' = minted + 1
                /\ client' = ClientAfterExchange(c, outcome, now)
                /\ cache' = CacheAfterMethod(CacheAfterExchange(cache, c, outcome, now),
                                             key, body, c.cache_timeout, now)
                /\ lastOk' = SetItem(lastOk, key, now)
                /\ lastTok' = [valid |-> TRUE,
                               expires |-> now + CacheDuration(outcome.expires_in)]
                /\ log' = <<[entry EXCEPT !.posts = 1, !.gets = 1,
                                          !.token = ExchangedToken(outcome),
                                          !.result = MethodResult(body)]>>
                /\ fn' = [name |-> "get_coverage_summary_bulk",
                          serial_numbers |-> serial_numbers,
                          result |-> MethodResult(body)]
    /\ UNCHANGED <<config, now, anomalies, lookups, vpc, device, frame, call, response,
                   callers, lastErr>>

\* Client ids that agree on the first 8 characters, differ inside them, or
\* are shorter than 8 characters.
ClientIdChoices ==
    { ClientIdValue,
      <<"c", "l", "i", "e", "n", "t", "-", "0", "2", "y">>,
      <<"c", "l", "i", "e", "n", "t", "-", "1", "1", "x">>,
      <<"i", "d">> }

\* The expires_in values the token endpoint reports.
ExpiresInChoices == {0, 59, 60, 100, 359, 360, 361, 1800, 3600, 86400}

\* What the token POST ends with, for each reported expiry, and the
\* outcomes without expires_in, without access_token and the failure.
TokenOutcomeChoices(n) ==
    { [kind |-> "ok", access_token |-> Token(n), expires_in |-> e] : e \in ExpiresInChoices }
        \cup TokenOutcomes(n)

\* CiscoSupportClient(client_id, client_secret)._get_token() called at time
\* t on a fresh client with an empty shared cache: the POST, and on a 200
\* the instance copy and the shared entry with their lifetime.
GetToken(client_id, client_secret, outcome, t) ==
    /\ fn = NoFn
    /\ now' = t
    /\ LET c == get_client([cisco_client_id |-> client_id,
                            cisco_client_secret |-> client_secret])
       IN  /\ TokenWithoutExchange(cache, c, t) = NoneSeq
           /\ minted' = minted + 1
           /\ client' = ClientAfterExchange(c, outcome, t)
           /\ cache' = CacheAfterExchange(cache, c, outcome, t)
           /\ lastTok' = IF TruthyCS(ExchangedToken(outcome))
                         THEN [valid |-> TRUE,
                               expires |-> t + CacheDuration(Get(outcome, "expires_in",
                                                                 DefaultExpiresIn))]
                         ELSE lastTok
           /\ fn' = [name |-> "_get_token", client_id |-> client_id,
                     client_secret |-> client_secret, outcome |-> outcome,
                     token |-> ExchangedToken(outcome)]
    /\ UNCHANGED <<config, anomalies, lookups, vpc, device, frame, call, log, response,
                   lastOk, lastErr, callers>>

\* The values a stack custom field holds: empty, blank, one serial, and
\* serials between commas, semicolons, blanks and tabs.
StackFieldValues ==
    { <<>>, <<" ">>, <<"B">>, <<"C", ";", "D">>, <<";", "E", ",", " ", ";", "F", "\t", "G", " ">> }

\* views.py 110-114 on a device with the given serial field and the given
\* stack custom fields (present[f] tells whether the device has field f).
ResolveStackSerials(serial_field, present, value) ==
    /\ fn = NoFn
    /\ LET cf == [f \in {x \in DOMAIN present : present[x]} |-> value[f]]
           d == Device(serial_field, TRUE, TRUE, MfrCisco, "", cf, FALSE, <<>>)
       IN  fn' = [name |-> "resolve_stack_serials", serial_field |-> serial_field,
                  cf |-> cf,
                  all_serials |-> AllSerials(d),
                  stack_serials |-> StackSerials(d)]
    /\ UNCHANGED <<MainVars, callers>>

NextFn ==
    \/ /\ fn = NoFn
       /\ \E n \in 0..MaxSerialList : \E up \in BOOLEAN :
             CoverageSummaryBulk(SerialList(n, up))
    \/ /\ fn = NoFn
       /\ \E n \in 0..MaxBugList :
             \E sev \in [1..n -> SeverityChoices] : FilterBugs(BugList(sev))
    \/ /\ fn = NoFn
       /\ \E n \in 0..MaxSerialField :
             \E serial_field \in [1..n -> SerialChars] : ResolveSerials(serial_field)
    \/ ResolveSerials(ExampleSerialField)
    \/ /\ fn = NoFn
       /\ \E serial_field \in {<<>>, <<" ", ",">>, <<"A">>, <<"A", ",", "B">>,
                                <<"A", ",", " ", "B", ",", "C">>} :
             \E present \in [{"stack_serials", "stack_members", "member_serials"} -> BOOLEAN] :
             \E value \in [{"stack_serials", "stack_members", "member_serials"} ->
                               StackFieldValues] :
                ResolveStackSerials(serial_field, present, value)
    \/ /\ fn = NoFn
       /\ \E client_id \in ClientIdChoices :
             \E client_secret \in {ClientSecretValue, <<"s", "3", "c", "r", "3", "t">>} :
             \E outcome \in TokenOutcomeChoices(minted + 1) : \E t \in {0, 1000} :
                GetToken(client_id, client_secret, outcome, t)

SpecFn == InitFn /\ [][NextFn]_vars

\* The entry's severity is 1, 2 or 3, as a number or as a numeral.
SeverityOneToThree(b) ==
    /\ "severity" \in DOMAIN b
    /\ \/ "int" \in DOMAIN b.severity /\ b.severity.int \in 1..3
       \/ "str" \in DOMAIN b.severity /\ b.severity.str \in {"1", "2", "3"}

\* The positions of xs whose entry has severity 1..3.
HighPositions(xs) == {i \in 1..Len(xs) : SeverityOneToThree(xs[i])}

\* The k-th smallest element of a set of numbers.
Nth(S, k) == CHOOSE i \in S : Cardinality({j \in S : j < i}) = k - 1

\* out is what the claim says the filter gives for xs.
FilteredTopFive(xs, out) ==
    LET H == HighPositions(xs)
    IN  /\ Len(out) <= 5
        /\ IF H # {}
           THEN /\ Len(out) = IF Cardinality(H) < 5 THEN Cardinality(H) ELSE 5
                /\ \A k \in 1..Len(out) : out[k] = xs[Nth(H, k)]
           ELSE /\ Len(out) = IF Len(xs) < 5 THEN Len(xs) ELSE 5
                /\ \A k \in 1..Len(out) : out[k] = xs[k]

\* C12: for general and version bugs alike the filtered list is the
\* entries with severity in {1,2,3} in their original order, capped at
\* the first 5 of them; with no such entry it is the first 5 entries of
\* the unfiltered list; it never has more than 5 entries.
C12_BugFilter ==
    fn.name = "filter_bugs" =>
        /\ FilteredTopFive(fn.all_bugs, fn.high_severity_bugs)
        /\ FilteredTopFive(fn.all_bugs, fn.high_severity_ver_bugs)

\* C12 witness: a list of seven whose first entry is not of high severity
\* and whose other six are: both the filter and the cap change the list.
C12_Witness ==
    /\ fn.name = "filter_bugs"
    /\ Len(fn.all_bugs) = 7
    /\ HighPositions(fn.all_bugs) = 2..7
    /\ Len(fn.high_severity_bugs) = 5
    /\ fn.high_severity_bugs[1].bug_id = 2

\* The positions of xs that do not hold x.
OtherPositions(xs, x) == {i \in 1..Len(xs) : xs[i] # x}

\* out is primary followed by stack, in order, without the occurrences of
\* primary.
PrimaryThenOthers(primary, stack, out) ==
    /\ Len(out) = 1 + Cardinality(OtherPositions(stack, primary))
    /\ out[1] = primary
    /\ \A k \in 2..Len(out) : out[k] = stack[Nth(OtherPositions(stack, primary), k - 1)]

\* The summary counts the members whose is_covered is "YES".
SummaryCounts(data, members) ==
    /\ data.total = Len(members)
    /\ data.covered =
          Cardinality({i \in 1..Len(members) :
                          "is_covered" \in DOMAIN members[i] /\ members[i].is_covered = "YES"})
    /\ data.covered + data.not_covered = data.total
    /\ data.members = members

\* The bulk call was issued with the primary serial and the stack serials
\* de-duplicated, and its summary, if any, counts right.
BulkCallAsClaimed ==
    /\ "stack" \in Issued
    /\ Len(EntryOf("stack").args) = 1
    /\ PrimaryThenOthers(response.serial_number, StackSerials(device),
                         EntryOf("stack").args[1])
    /\ response.stack_coverage_data # NoneRec =>
          SummaryCounts(response.stack_coverage_data,
                        EntryOf("stack").result.serial_numbers)

Cuts(s) == {0, Len(s) + 1} \cup {i \in 1..Len(s) : s[i] = ","}

\* The k-th segment of the field, between two neighbouring cut points.
Segment(s, k) == SubSeq(s, Nth(Cuts(s), k) + 1, Nth(Cuts(s), k + 1) - 1)

\* x without its leading and trailing blanks.
Trimmed(x) ==
    LET solid == {i \in 1..Len(x) : x[i] \notin {" ", "\t"}}
    IN  IF solid = {} THEN <<>>
        ELSE SubSeq(x, CHOOSE i \in solid : \A j \in solid : i <= j,
                       CHOOSE i \in solid : \A j \in solid : j <= i)

\* The segments of the field that are not blank.
SolidSegments(s) == {k \in 1..(Cardinality(Cuts(s)) - 1) : Trimmed(Segment(s, k)) # <<>>}

\* out is the field split on commas, each segment trimmed, the empty ones dropped.
SplitTrimDrop(s, out) ==
    /\ Len(out) = Cardinality(SolidSegments(s))
    /\ \A j \in 1..Len(out) : out[j] = Trimmed(Segment(s, Nth(SolidSegments(s), j)))

\* C14: the serial field is split on commas, each segment trimmed and
\* the empty segments dropped; the first remaining element is the primary
\* serial used for every by-serial call and the remaining elements, in
\* order, are the stack serials.
C14_SerialParsing ==
    fn.name = "resolve_serials" =>
        /\ SplitTrimDrop(fn.serial_field, fn.all_serials)
        /\ Len(fn.all_serials) >= 1 =>
              /\ fn.serial_number = fn.all_serials[1]
              /\ fn.by_serial = {<<fn.all_serials[1]>>}
              /\ Len(fn.stack_serials) = Len(fn.all_serials) - 1
              /\ \A k \in 1..Len(fn.stack_serials) :
                    fn.stack_serials[k] = fn.all_serials[k + 1]

\* C14 witness: the documented example, "FCW1,  FCW2 ,FCW3", gave primary
\* FCW1 and stack FCW2, FCW3.
C14_Witness ==
    /\ fn.name = "resolve_serials"
    /\ fn.serial_field = ExampleSerialField
    /\ fn.serial_number = <<"F", "C", "W", "1">>
    /\ fn.stack_serials = <<(<<"F", "C", "W", "2">>), (<<"F", "C", "W", "3">>)>>

\* The first n entries of xs, in order.
FirstN(xs, n) == [i \in 1..(IF Len(xs) < n THEN Len(xs) ELSE n) |-> xs[i]]

\* out is the entries of xs, all of one length, with a comma between
\* neighbours.
CommaJoined(xs, out) ==
    LET L == Len(xs[1])
    IN  /\ \A k \in 1..Len(xs) : Len(xs[k]) = L
        /\ Len(out) = Len(xs) * (L + 1) - 1
        /\ \A k \in 1..Len(xs) :
              /\ \A j \in 1..L : out[(k - 1) * (L + 1) + j] = xs[k][j]
              /\ k < Len(xs) => out[k * (L + 1)] = ","

\* C15: for more than 75 serials the upstream call and the cache key of
\* get_coverage_summary_bulk use exactly the first 75 serials in order
\* (all of them up to 75); for an empty input the method returns a "no
\* serial numbers provided" error without consulting the cache,
\* exchanging a token or issuing any call.
C15_BulkInput ==
    fn.name = "get_coverage_summary_bulk" =>
        IF fn.serial_numbers = <<>>
        THEN /\ fn.result = [error |-> "No serial numbers provided"]
             /\ log[1].hit = FALSE /\ log[1].posts = 0 /\ log[1].gets = 0
             /\ cache = EmptyMap /\ minted = 0 /\ client = NoneRec
        ELSE /\ ~IsError(fn.result)
             /\ log[1].gets = 1
             /\ log[1].endpoint[1] = "/sn2info/v2/coverage/summary/serial_numbers/"
             /\ CommaJoined(FirstN(fn.serial_numbers, 75), log[1].endpoint[2])
             /\ log[1].key = <<"cisco_coverage_bulk", Hash(log[1].endpoint[2])>>
             /\ DOMAIN cache = {log[1].key, TokenCacheKey(client)}

\* C15 witness: a call with 78 serials went upstream with 75 of them.
C15_Witness ==
    /\ fn.name = "get_coverage_summary_bulk"
    /\ Len(fn.serial_numbers) = 78
    /\ fn.serial_numbers[1] = Serial(78)
    /\ Len(log[1].endpoint[2]) = 75 * 5 - 1
    /\ SubSeq(log[1].endpoint[2], 1, 4) = Serial(78)
    /\ log[1].gets = 1

\* C15, the empty input: the call returned the error and nothing else
\* happened.
C15_WitnessEmpty ==
    /\ fn.name = "get_coverage_summary_bulk"
    /\ fn.serial_numbers = <<>>
    /\ IsError(fn.result)

\* The device of the end-to-end example: one serial, manufacturer Cisco,
\* device-type model C9300-48P, no software-version custom field.
EndToEndDevice(d) ==
    /\ d.serial = <<"A">>
    /\ d.has_type /\ d.has_mfr /\ d.mfr_name = MfrCisco
    /\ d.model = "C9300-48P"
    /\ \A x \in {"software_version", "sw_version", "ios_version", "version"} :
          x \notin DOMAIN d.cf

\* general_bugs is there and was made from the result of the keyword call
\* with the model.
GeneralBugsByKeyword ==
    /\ "bugs_kw" \in Issued
    /\ EntryOf("bugs_kw").args = <<"C9300-48P">>
    /\ ~Errored("bugs_kw")
    /\ "bugs_pid" \notin Issued
    /\ response.bugs_data # NoneRec
    /\ FilteredTopFive(EntryOf("bugs_kw").result.bugs, response.bugs_data.bugs)

CallPosition(b) == CHOOSE i \in 1..Len(log) : log[i].block = b

\* The product id if product-info resolved one, else the device-type model.
ProductIdOrModel == IF HasProductId THEN response.product_id ELSE device.model

\* The parts of the general-bugs chain that do not depend on product-info:
\* the bugs-by-product call is issued only if the keyword call was not
\* made or returned an error, after it, and with product_id if resolved,
\* else the model; after a keyword success it is never issued.
GeneralBugsFallbackRule ==
    /\ "bugs_kw" \in Issued => EntryOf("bugs_kw").args = <<device.model>>
    /\ "bugs_pid" \in Issued =>
          /\ "bugs_kw" \notin Issued \/ Errored("bugs_kw")
          /\ "bugs_kw" \in Issued => CallPosition("bugs_kw") < CallPosition("bugs_pid")
          /\ EntryOf("bugs_pid").args = <<ProductIdOrModel>>
    /\ ("bugs_kw" \in Issued /\ ~Errored("bugs_kw")) => "bugs_pid" \notin Issued

C17_WitnessEmptyList ==
    /\ vpc = "done"
    /\ "bugs_kw" \in Issued /\ ~Errored("bugs_kw")
    /\ EntryOf("bugs_kw").result.bugs = <<>>
    /\ "bugs_pid" \notin Issued
    /\ response.bugs_data.bugs = <<>>

VersionCallArgs ==
    /\ "ver_name" \in Issued =>
          EntryOf("ver_name").args = <<response.cc_series, response.software_version>>
    /\ "ver_pid" \in Issued =>
          EntryOf("ver_pid").args = <<ProductIdOrModel, response.software_version>>

C18_WitnessNoVersion ==
    /\ vpc = "done" /\ ProductSucceeded
    /\ ~HasVersion
    /\ "bugs_kw" \in Issued
    /\ "ver_name" \notin Issued /\ "ver_pid" \notin Issued

\* The advisory list the advisories call returned.
UpstreamAdvisories == EntryOf("psirt").result.advisories

\* C19: the advisories call is issued only when a product id was resolved
\* from product-info; on success the returned list is the first 10
\* advisories in order and total is the length of the full upstream
\* list, so total >= the length of the returned list, which has at most
\* 10 entries.
C19_Advisories ==
    (vpc = "done" /\ Len(log) >= 1) =>
        /\ "psirt" \in Issued =>
              /\ ProductSucceeded /\ HasProductId
              /\ EntryOf("psirt").args = <<response.product_id>>
        /\ ("psirt" \in Issued /\ ~Errored("psirt")) =>
              /\ response.psirt_data # NoneRec
              /\ Len(response.psirt_data.advisories) <= 10
              /\ Len(response.psirt_data.advisories) <= Len(UpstreamAdvisories)
              /\ \A i \in 1..Len(UpstreamAdvisories) :
                    i <= 10 =>
                        /\ i <= Len(response.psirt_data.advisories)
                        /\ response.psirt_data.advisories[i] = UpstreamAdvisories[i]
              /\ response.psirt_data.total = Len(UpstreamAdvisories)
              /\ response.psirt_data.total >= Len(response.psirt_data.advisories)

\* C19 witness: upstream returned more than 10 advisories and the lookup
\* shows 10 of them with the full count.
C19_Witness ==
    /\ vpc = "done"
    /\ "psirt" \in Issued /\ ~Errored("psirt")
    /\ Len(UpstreamAdvisories) > 10
    /\ Len(response.psirt_data.advisories) = 10
    /\ response.psirt_data.total = Len(UpstreamAdvisories)

\* The expiry the token endpoint reported in the exchange just made.
ReportedExpiry == fn.outcome.expires_in

\* max(reported_expiry - 300, 60)
EffectiveTtl ==
    IF ReportedExpiry - 300 > 60 THEN ReportedExpiry - 300 ELSE 60

\* The shared-store key as the first 8 characters of the client id.
KeyOfClientId(client_id) == <<"cisco_support_token", FirstN(client_id, 8)>>

\* The token exchange succeeded and reported an expiry.
TokenExchanged ==
    /\ fn.name = "_get_token"
    /\ fn.outcome.kind = "ok"
    /\ "expires_in" \in DOMAIN fn.outcome

\* C20: after a successful token exchange the shared store and the client
\* both hold the token for max(reported_expiry - 300, 60) seconds: never
\* below 60 and, for reported_expiry >= 360, exactly 300 less than
\* reported; the shared-store key is derived from the first 8 characters
\* of client_id and never from the secret.
C20_TokenTtl ==
    TokenExchanged =>
        /\ DOMAIN cache = {KeyOfClientId(fn.client_id)}
        /\ \A k \in DOMAIN cache :
              /\ cache[k].value = fn.token
              /\ cache[k].expires - now = EffectiveTtl
              /\ cache[k].expires - now >= 60
              /\ ReportedExpiry >= 360 => cache[k].expires - now = ReportedExpiry - 300
        /\ client._token_expiry - now = EffectiveTtl
        /\ client._token = fn.token

\* C20 witness: a reported expiry below 360 is stored with the 60 second
\* floor, under a key that holds 8 characters of a longer client id.
C20_Witness ==
    /\ TokenExchanged
    /\ ReportedExpiry = 100
    /\ Len(fn.client_id) > 8
    /\ now > 0
    /\ \E k \in DOMAIN cache : cache[k].expires - now = 60 /\ Len(k[2]) = 8
    /\ client._token_expiry - now = 60

\* C20, the long expiry: 3600 reported, 3300 stored.
C20_WitnessLong ==
    /\ TokenExchanged
    /\ ReportedExpiry = 3600
    /\ \E k \in DOMAIN cache : cache[k].expires - now = 3300

\* This step is a token exchange of the call in flight that failed.
ExchangeFails == Len(log') = Len(log) /\ Len(log) >= 1
                 /\ Last(log').postsFailed = Last(log).postsFailed + 1

\* The failed exchange stores no token: the shared store and the client's
\* own copy are as before, and the call returns without a further GET.
NothingStoredNoGet ==
    /\ cache' = cache
    /\ client' = client
    /\ \A k \in DOMAIN cache' :
          k[1] = "cisco_support_token" => ~(now < cache'[k].expires /\ TruthyCS(cache'[k].value))
    /\ ~(TruthyCS(client'._token) /\ now < client'._token_expiry)
    /\ call'.pc = "idle"
    /\ Last(log').gets = Last(log).gets

\* C21 as claimed: when the token exchange fails no token is stored in
\* the shared store or made valid in the client, and the data call that
\* needed it returns the authentication error result without any data GET.
C21_Original ==
    [][ExchangeFails =>
          /\ NothingStoredNoGet
          /\ Last(log').gets = 0
          /\ Last(log').result = AuthFailed]_vars

\* C21 (amended): when the token exchange fails no token is stored in the
\* shared store or made valid in the client, and the data call that needed
\* it returns an error result without a data GET after the failure: the
\* authentication error with no GET at all when the exchange came before
\* the first GET, the 401 status error with no retried GET when it was the
\* re-exchange after a 401.
C21_TokenFailure ==
    [][ExchangeFails =>
          /\ NothingStoredNoGet
          /\ call.pc = "token" =>
                /\ Last(log').gets = 0
                /\ Last(log').result = AuthFailed
          /\ call.pc = "retoken" =>
                /\ Last(log').gets = 1 /\ Last(log').regets = 0
                /\ Last(log').result = RaisedForStatus(401)]_vars

\* C21 witness: a data call's first token exchange failed; the call
\* returned the authentication error with no GET and no token is held.
C21_Witness ==
    /\ Len(log) >= 1
    /\ log[1].postsFailed = 1 /\ log[1].gets = 0
    /\ log[1].result = AuthFailed
    /\ cache = EmptyMap
    /\ vpc = "eox"

\* The upstream failure the call ended on: the cause of its failed token
\* exchange, else the cause of its failed GET, else "none".
UpstreamFailure(e) == IF e.tokenFailure # "none" THEN e.tokenFailure ELSE e.getFailure

\* The result is an error result that carries a message.
ErrorWithMessage(r) == r # NoneRec /\ IsError(r) /\ r.error \notin {"", None}

\* Every returned call has a value, and an error result with a message
\* after a timeout, a transport failure or an error status.
ReturnsValueOrError ==
    \A i \in Returned :
        /\ log[i].result # NoneRec
        /\ UpstreamFailure(log[i]) # "none" => ErrorWithMessage(log[i].result)

\* The messages of the failures that are not timeouts.
OtherFailureMessages ==
    {"Failed to authenticate with Cisco API", "401 Client Error", "500 Server Error",
     "Connection error"}

\* Every failure that is not a timeout is reported with one of them.
OtherFailuresReported ==
    \A i \in Returned :
        UpstreamFailure(log[i]) \in {"transport", "status"} =>
            log[i].result.error \in OtherFailureMessages

C22_WitnessTokenTimeout ==
    \E i \in Returned :
        /\ log[i].tokenFailure = "timeout" /\ log[i].gets = 0
        /\ log[i].result = [error |-> "Failed to authenticate with Cisco API"]

----------------------------------------------------------------------------
(* The settings page and the connectivity test, next to the lookups *)

\* forms.py 53: the mask.
MaskedSecret == <<"*", "*", "*", "*", "*", "*", "*", "*">>

\* CiscoSupportSettingsForm.__init__: Form keeps the dict it is given as
\* self.initial (django: self.initial = initial or {}) and the secret in
\* it, when set, is overwritten with the mask.
MaskedInitial(initial) ==
    IF TruthyCS(initial.cisco_client_secret)
    THEN [initial EXCEPT !.cisco_client_secret = MaskedSecret]
    ELSE initial

\* CiscoSupportSettingsView.get: the form is built on the plugin's entry of
\* settings.PLUGINS_CONFIG itself, then the page is rendered.
SettingsView ==
    /\ vpc \in {"idle", "done"}
    /\ call.pc = "idle"
    /\ config' = MaskedInitial(config)
    /\ UNCHANGED <<callers, fn, now, cache, minted, anomalies, lookups, vpc, device, client, frame,
                   call, log, response, lastOk, lastErr, lastTok>>

\* TestConnectionView.get up to the token POST of test_connection(): no
\* request without credentials or with a token at hand.
TestConnection ==
    /\ vpc \in {"idle", "done"}
    /\ call.pc = "idle"
    /\ IF get_client(config) = NoneRec
       THEN UNCHANGED <<client, call>>
       ELSE IF TruthyCS(TokenWithoutExchange(cache, get_client(config), now))
       THEN UNCHANGED <<client, call>>
       ELSE /\ client' = get_client(config)
            /\ call' = [pc |-> "test", method |-> "test_connection", key |-> <<>>,
                        token |-> NoneSeq]
    /\ UNCHANGED <<callers, fn, config, now, cache, minted, anomalies, lookups, vpc, device, frame,
                   log, response, lastOk, lastErr, lastTok>>

\* The token endpoint answers the POST of test_connection(); the view
\* returns and its client is gone.
TestConnectionResponse(outcome) ==
    /\ call.pc = "test"
    /\ anomalies + Anomaly(outcome, NominalTokenOutcome(minted + 1)) <= MaxAnomalies
    /\ anomalies' = anomalies + Anomaly(outcome, NominalTokenOutcome(minted + 1))
    /\ minted' = minted + 1
    /\ cache' = CacheAfterExchange(cache, client, outcome, now)
    /\ lastTok' = IF TruthyCS(ExchangedToken(outcome))
                  THEN [valid |-> TRUE,
                        expires |-> now + CacheDuration(Get(outcome, "expires_in",
                                                            DefaultExpiresIn))]
                  ELSE lastTok
    /\ client' = NoneRec
    /\ call' = IdleCall
    /\ UNCHANGED <<callers, fn, config, now, lookups, vpc, device, frame, log, response, lastOk, lastErr>>

\* Lookups of two devices, settings-page views and connectivity tests, one
\* request at a time.
NextOps ==
    \/ call.pc = "idle" /\ Tick
    \/ call.pc = "idle" /\ \E d \in {DevPlain, DevNoType} : StartLookup(d)
    \/ SkipBlock
    \/ CallLocal
    \/ CallUpstream
    \/ \E o \in TokenOutcomes(minted + 1) : TokenResponse(o)
    \/ \E o \in PendingGetOutcomes : GetOk(o)
    \/ GetUnauthorized
    \/ \E o \in PendingGetOutcomes : GetFailed(o)
    \/ Render
    \/ SettingsView
    \/ TestConnection
    \/ \E o \in TokenOutcomes(minted + 1) : TestConnectionResponse(o)

SpecOps == Init /\ [][NextOps]_vars

\* The credentials the token POST in flight carries are those of the
\* client that sends it.
ExchangeInFlight == call.pc \in {"token", "retoken", "test"}

\* C23: credentials are immutable: after any sequence of lookups,
\* connectivity tests and settings-page views, the client_id and
\* client_secret a token exchange is made with are the values configured
\* at startup; a settings-page view followed by a lookup exchanges with
\* the original secret.
C23_CredentialsImmutable ==
    ExchangeInFlight =>
        /\ client.client_id = ClientIdValue
        /\ client.client_secret = ClientSecretValue

\* C23, the failing run: a lookup's token exchange is sent with the mask
\* as the secret.
C23_MaskedExchange ==
    /\ call.pc = "token"
    /\ vpc = "product"
    /\ client.client_secret = MaskedSecret

----------------------------------------------------------------------------
(* Two requests served at once: get_product_info against a healthy upstream *)

\* Two callers, each with its own client, about to call get_product_info
\* for serial A or B; the shared cache holds a token or nothing.
InitPar ==
    /\ config = [cisco_client_id |-> ClientIdValue, cisco_client_secret |-> ClientSecretValue]
    /\ now = 0
    /\ \E tokenCached \in BOOLEAN :
          /\ minted = IF tokenCached THEN 1 ELSE 0
          /\ cache = IF tokenCached
                     THEN CacheAfterExchange(EmptyMap, get_client(config),
                                             NominalTokenOutcome(1), 0)
                     ELSE EmptyMap
    /\ anomalies = 0
    /\ lookups = 0
    /\ vpc = "idle"
    /\ device = DevPlain
    /\ client = NoneRec
    /\ frame = NoneRec
    /\ call = IdleCall
    /\ log = <<>>
    /\ response = NoneRec
    /\ lastOk = EmptyMap
    /\ lastErr = {}
    /\ lastTok = NoTok
    /\ fn = NoFn
    /\ callers \in [{1, 2} -> {[pc |-> "start", serial_number |-> sn,
                               client |-> get_client(config), missed |-> FALSE,
                               token |-> NoneSeq, posts |-> 0, gets |-> 0,
                               body |-> NoneRec, result |-> NoneRec] :
                                  sn \in {<<"A">>, <<"B">>}}]

\* get_product_info: cache.get(cache_key), the hit returned at once.
ParCacheGet(p) ==
    /\ callers[p].pc = "start"
    /\ LET key == MethodKey("get_product_info", <<callers[p].serial_number>>)
       IN  callers' = [callers EXCEPT ![p] =
               IF CacheLive(cache, key, now)
               THEN [@ EXCEPT !.pc = "done", !.result = HitResult(cache, key)]
               ELSE [@ EXCEPT !.pc = "request", !.missed = TRUE]]
    /\ UNCHANGED <<MainVars, fn>>

\* _make_request: _get_token() finds a token and the GET is sent, or it
\* finds none and the token POST is sent.
ParGetToken(p) ==
    /\ callers[p].pc = "request"
    /\ LET token == TokenWithoutExchange(cache, callers[p].client, now)
       IN  callers' = [callers EXCEPT ![p] =
               IF TruthyCS(token)
               THEN [@ EXCEPT !.pc = "get", !.token = token, !.gets = @ + 1]
               ELSE [@ EXCEPT !.pc = "post", !.posts = @ + 1]]
    /\ UNCHANGED <<MainVars, fn>>

\* The token endpoint answers: the token is kept and stored, the GET is sent.
ParTokenAnswer(p) ==
    /\ callers[p].pc = "post"
    /\ LET outcome == NominalTokenOutcome(minted + 1)
       IN  /\ minted' = minted + 1
           /\ cache' = CacheAfterExchange(cache, callers[p].client, outcome, now)
           /\ callers' = [callers EXCEPT ![p] =
                  [@ EXCEPT !.pc = "get", !.token = ExchangedToken(outcome),
                            !.gets = @ + 1,
                            !.client = ClientAfterExchange(callers[p].client, outcome, now)]]
    /\ UNCHANGED <<config, now, anomalies, lookups, vpc, device, client, frame, call, log,
                   response, lastOk, lastErr, lastTok, fn>>

\* The data endpoint answers 200 and _make_request returns the body.
ParGetAnswer(p) ==
    /\ callers[p].pc = "get"
    /\ callers' = [callers EXCEPT ![p] =
           [@ EXCEPT !.pc = "store", !.body = NominalBody("get_product_info")]]
    /\ UNCHANGED <<MainVars, fn>>

\* get_product_info: result["cached"] = False, cache.set, return.
ParCacheSet(p) ==
    /\ callers[p].pc = "store"
    /\ cache' = CacheAfterMethod(cache,
                                 MethodKey("get_product_info", <<callers[p].serial_number>>),
                                 callers[p].body, callers[p].client.cache_timeout, now)
    /\ callers' = [callers EXCEPT ![p] =
           [@ EXCEPT !.pc = "done", !.result = MethodResult(callers[p].body)]]
    /\ UNCHANGED <<config, now, minted, anomalies, lookups, vpc, device, client, frame, call,
                   log, response, lastOk, lastErr, lastTok, fn>>

NextPar ==
    \/ \E p \in {1, 2} : ParCacheGet(p)
    \/ \E p \in {1, 2} : ParGetToken(p)
    \/ \E p \in {1, 2} : ParTokenAnswer(p)
    \/ \E p \in {1, 2} : ParGetAnswer(p)
    \/ \E p \in {1, 2} : ParCacheSet(p)

SpecPar == InitPar /\ [][NextPar]_vars

\* Both callers ask for the same serial and both missed the cache.
Stampede ==
    /\ callers[1].serial_number = callers[2].serial_number
    /\ callers[1].missed /\ callers[2].missed

\* The cache key of caller p's call.
CallerKey(p) == <<"cisco_product", callers[p].serial_number>>

\* A caller that has not returned is never held back by the other one:
\* its next step can be taken.
NeverHeldBack ==
    \A p \in {1, 2} :
        callers[p].pc # "done" =>
            ENABLED (ParCacheGet(p) \/ ParGetToken(p) \/ ParTokenAnswer(p)
                        \/ ParGetAnswer(p) \/ ParCacheSet(p))

\* C24: two concurrent lookups that miss on the same cache key with a
\* healthy upstream are not serialised; each issues its own upstream call
\* (at most one each, two in total), both return a result that is not an
\* error, and afterwards the cache holds a successful response for the key.
C24_Stampede ==
    /\ NeverHeldBack
    /\ Stampede =>
          /\ \A p \in {1, 2} : callers[p].gets <= 1
          /\ (\A p \in {1, 2} : callers[p].pc = "done") =>
                /\ callers[1].gets + callers[2].gets = 2
                /\ \A p \in {1, 2} :
                      /\ callers[p].result # NoneRec
                      /\ "error" \notin DOMAIN callers[p].result
                      /\ CallerKey(p) \in DOMAIN cache
                      /\ now < cache[CallerKey(p)].expires
                      /\ "error" \notin DOMAIN cache[CallerKey(p)].value
                      /\ "product_list" \in DOMAIN cache[CallerKey(p)].value

\* C24 witness: both callers missed on the same key, each sent its own
\* GET, and both have returned.
C24_Witness ==
    /\ Stampede
    /\ \A p \in {1, 2} : callers[p].pc = "done" /\ callers[p].gets = 1
    /\ CallerKey(1) \in DOMAIN cache

\* C24, no deduplication: the two GETs for one key are in flight together.
C24_WitnessBothInFlight ==
    /\ Stampede
    /\ \A p \in {1, 2} : callers[p].pc = "get"

\* A character re.split(r"[,;\s]+") cuts at.
Separates(c) == c \in {",", ";", " ", "\t"}

\* Where the pieces of s between separators start, and where the piece
\* that starts at i ends.
PieceStarts(s) == {i \in 1..Len(s) : ~Separates(s[i]) /\ (i = 1 \/ Separates(s[i - 1]))}

PieceEnd(s, i) ==
    CHOOSE j \in i..Len(s) :
        /\ \A k \in i..j : ~Separates(s[k])
        /\ j = Len(s) \/ Separates(s[j + 1])

\* out is s split on commas, semicolons and whitespace runs, the empty
\* segments dropped.
SplitOnSeparators(s, out) ==
    /\ Len(out) = Cardinality(PieceStarts(s))
    /\ \A k \in 1..Len(out) :
          out[k] = SubSeq(s, Nth(PieceStarts(s), k), PieceEnd(s, Nth(PieceStarts(s), k)))

\* The stack fields of cf that are present and not empty, in the order
\* of preference, as positions 1..3.
NonEmptyStackFields(cf) ==
    {i \in 1..3 :
        LET f == <<"stack_serials", "stack_members", "member_serials">>[i]
        IN  f \in DOMAIN cf /\ cf[f] # <<>>}

\* C25: the stack custom fields are consulted only when the serial field
\* yields at most one serial; then the first non-empty field among
\* stack_serials, stack_members, member_serials is used alone, split on
\* commas, semicolons or whitespace runs with empty segments dropped (no
\* stack serials when there is none); with two or more serials in the
\* serial field the stack serials are the serials after the first and the
\* custom fields are ignored.
C25_StackCustomFields ==
    fn.name = "resolve_stack_serials" =>
        LET serials == Cardinality(SolidSegments(fn.serial_field))
            fields == NonEmptyStackFields(fn.cf)
        IN  /\ serials >= 2 =>
                  /\ Len(fn.stack_serials) = serials - 1
                  /\ \A k \in 1..(serials - 1) :
                        fn.stack_serials[k] =
                            Trimmed(Segment(fn.serial_field,
                                            Nth(SolidSegments(fn.serial_field), k + 1)))
            /\ (serials <= 1 /\ fields = {}) => fn.stack_serials = <<>>
            /\ (serials <= 1 /\ fields # {}) =>
                  SplitOnSeparators(
                      fn.cf[<<"stack_serials", "stack_members", "member_serials">>[Nth(fields, 1)]],
                      fn.stack_serials)

\* C25 witness: one serial in the serial field, stack_serials empty,
\* stack_members holds three serials between mixed separators and is used
\* alone although member_serials is set too.
C25_Witness ==
    /\ fn.name = "resolve_stack_serials"
    /\ fn.serial_field = <<"A">>
    /\ DOMAIN fn.cf = {"stack_serials", "stack_members", "member_serials"}
    /\ fn.cf.stack_serials = <<>>
    /\ fn.cf.stack_members = <<";", "E", ",", " ", ";", "F", "\t", "G", " ">>
    /\ fn.cf.member_serials = <<"C", ";", "D">>
    /\ fn.stack_serials = << <<"E">>, <<"F">>, <<"G">> >>

\* C25, two serials in the serial field: the custom fields are ignored.
C25_WitnessIgnored ==
    /\ fn.name = "resolve_stack_serials"
    /\ fn.serial_field = <<"A", ",", "B">>
    /\ "stack_serials" \in DOMAIN fn.cf /\ fn.cf.stack_serials = <<"C", ";", "D">>
    /\ fn.stack_serials = << <<"B">> >>

\* The product list the product-info call returned.
ProductList == log[1].result.product_list

\* C26: data-absent is not an error: when product-info succeeds with an
\* empty product list the top-level error stays null, product_info and
\* product_id are null, the advisories and software-suggestion calls are
\* not issued, and the bug lookups still run with the device-type model in
\* the place of the product id; product_id, when present, is the base PID
\* if non-empty, else the orderable PID.
C26_DataAbsent ==
    (vpc = "done" /\ ProductSucceeded) =>
        /\ ProductList = <<>> =>
              /\ response.error = None
              /\ response.product_data = NoneRec
              /\ response.product_id = None
              /\ "psirt" \notin Issued /\ "software" \notin Issued
              /\ HasModel(device) =>
                    /\ "bugs_kw" \in Issued
                    /\ EntryOf("bugs_kw").args = <<device.model>>
                    /\ Errored("bugs_kw") <=> "bugs_pid" \in Issued
                    /\ "bugs_pid" \in Issued => EntryOf("bugs_pid").args = <<device.model>>
                    /\ "ver_pid" \in Issued => EntryOf("ver_pid").args[1] = device.model
                    /\ (HasVersion /\ ~HasSeries) => "ver_pid" \in Issued
        /\ ProductList # <<>> =>
              response.product_id =
                  IF ProductList[1].base_pid # "" THEN ProductList[1].base_pid
                  ELSE ProductList[1].orderable_pid

\* C26 witness: product-info returned an empty list; the keyword call
\* failed and the bugs-by-product call was made with the model.
C26_Witness ==
    /\ vpc = "done" /\ ProductSucceeded
    /\ ProductList = <<>>
    /\ response.error = None /\ response.product_id = None
    /\ Errored("bugs_kw")
    /\ "bugs_pid" \in Issued /\ EntryOf("bugs_pid").args = <<"C9300-48P">>

\* C26, the orderable PID: the base PID is empty.
C26_WitnessOrderable ==
    /\ vpc = "done" /\ ProductSucceeded
    /\ ProductList # <<>>
    /\ ProductList[1].base_pid = ""
    /\ response.product_id = "C9300-O"

\* The requests the call has sent so far.
RequestsSent(e) == e.posts + e.gets

\* C27: bounded retry: whatever the upstream answers, a data call issues
\* at most two data GETs and at most two token exchanges and terminates
\* (every answer to a call in flight either ends the call or is followed
\* by one more of these at most four requests); if the re-exchange after
\* a 401 fails, no retried GET is issued and the call returns an error
\* result.
C27_BoundedRetry ==
    /\ [](\A i \in 1..Len(log) :
             /\ log[i].gets <= 2 /\ log[i].posts <= 2
             /\ (i \in Returned /\ log[i].reposts = 1 /\ log[i].tokenFailure # "none") =>
                   /\ log[i].regets = 0 /\ log[i].gets = 1
                   /\ IsError(log[i].result))
    /\ [][call.pc \in {"token", "retoken", "get", "reget"} =>
            \/ call'.pc = "idle" /\ Len(log') \in Returned'
            \/ Len(log') = Len(log) /\ RequestsSent(Last(log')) = RequestsSent(Last(log)) + 1]_vars

\* C27 witness: a call that used its whole budget: two token exchanges
\* and two GETs, then returned.
C27_Witness ==
    \E i \in Returned :
        /\ log[i].posts = 2 /\ log[i].gets = 2
        /\ log[i].got401 = 1

\* C27, the re-exchange after the 401 failed: one GET, an error result.
C27_WitnessReexchangeFailed ==
    \E i \in Returned :
        /\ log[i].reposts = 1 /\ log[i].tokenFailure # "none"
        /\ log[i].gets = 1 /\ IsError(log[i].result)

----------------------------------------------------------------------------
(* C28 *)

\* The entries of the response cache (the token entries are the others).
ResponseKeys == {k \in DOMAIN cache : k[1] # "cisco_support_token"}

\* C28: error results are never written to the response cache: no entry of
\* the response cache holds an error result; after a call returned an error
\* the cache has no entry for its key; and the next call with the same
\* endpoint and parameters (the same key) is no cache hit, sends a request
\* upstream again, and what it returns is not marked as read from the cache.
C28_ErrorsNotCached ==
    /\ \A k \in ResponseKeys : ~IsError(cache[k].value)
    /\ \A i \in Returned : IsError(log[i].result) => log[i].key \notin DOMAIN cache
    /\ \A i \in 1..Len(log) : log[i].priorError => ~log[i].hit /\ WentUpstream(log[i])
    /\ \A i \in Returned :
          log[i].priorError => Get(log[i].result, "cached", FALSE) = FALSE

\* C28: a call returned an error, and the next call with the same key, in a
\* later lookup of the same device, sent its GET and returned the data.
C28_Witness ==
    \E i \in Returned :
        /\ log[i].priorError /\ ~log[i].hit /\ WentUpstream(log[i])
        /\ log[i].gets >= 1 /\ ~IsError(log[i].result)

\* C28, the error repeats: the call after an error goes upstream and
\* returns an error again.
C28_WitnessErrorAgain ==
    \E i \in Returned :
        /\ log[i].priorError /\ ~log[i].hit /\ WentUpstream(log[i]) /\ IsError(log[i].result)

====
